---------------------------- MODULE Spec2Model ----------------------------
(***************************************************************************)
(* A model of the retrieval-augmented analysis pipeline of CodeGuard:      *)
(* CodeChunker (app/rag/chunker.py), LLMEngine (app/core/llm.py),          *)
(* EmbeddingGenerator (app/rag/embeddings.py), VectorStore                 *)
(* (app/rag/vector_store.py), CodeScanner (app/scanner/scanner.py) and     *)
(* CodeIngestion.cleanup (app/core/ingestion.py).                          *)
(*                                                                         *)
(* Texts are sequences of characters.  A file content is a sequence over   *)
(* {NL, "x"}: NL is the line separator "\n" and "x" any other character.   *)
(***************************************************************************)
EXTENDS Integers, Sequences, FiniteSets, TLC

VARIABLES
    \* ---- CodeChunker: fields of the object, the call's input and output
    chunk_size,       \* self.chunk_size
    chunk_overlap,    \* self.chunk_overlap
    encoding,         \* self.encoding: TRUE a tokenizer was loaded, FALSE None
    content,          \* the content argument of chunk_file
    language_arg,     \* the language argument of chunk_file
    chunks,           \* the list chunk_file returned
    cpc,              \* "ready" before the call of chunk_file, "done" after
    \* ---- LLMEngine: fields and settings, and one call of analyze_code
    ollama_client,         \* self.ollama_client is not None
    openai_client,         \* self.openai_client is not None
    use_openai_fallback,   \* settings.use_openai_fallback
    ollama_model,          \* settings.ollama_model
    ollama_fallback_model, \* settings.ollama_fallback_model
    lpc,              \* position of analyze_code: "idle", "primary", "fallback",
                      \* "secondary" (the provider call awaited), "returned"
    attempts,         \* the provider calls of this analyze_code call, in order
    llm_result,       \* the value analyze_code returned
    llm_raised,       \* TRUE when an exception left analyze_code
    context_arg,      \* the context argument of analyze_code; <<>> is None or []
    prompt,           \* the context part of the prompt _build_analysis_prompt built
    \* ---- CodeScanner.scan: arguments, environment, locals, outcome
    repository_url,   \* argument: a URL or None
    repository_path,  \* argument: a path or None
    file_paths,       \* argument: the allow-list; <<>> is None or []
    directory,        \* the file records scan_directory finds
    spc,              \* position of scan: "call", "resolve", "clone", "list",
                      \* "chunk", "embed", "upsert", "files", "await", "done"
    scan_id,          \* local scan_id
    repo_path,        \* local repo_path
    files,            \* local files
    total_files,      \* local total_files
    all_chunks,       \* local all_chunks
    embeddings,       \* local embeddings
    fi,               \* index in files of the file the loop is at
    context,          \* local context of the file
    all_issues,       \* local all_issues
    scanned_files,    \* local scanned_files
    result,           \* the ScanResult scan returned
    returns,          \* how many results scan has returned
    escaped,          \* TRUE when an exception left scan
    cleaned,          \* the directories ingestion.cleanup was called on
    points,           \* the points of the vector store's collection
    uuids,            \* the next fresh uuid4
    file_log,         \* history: per file of the loop, whether it threw and its issues
    failed_stage,     \* history: the stage whose exception reached the except block
    \* ---- EmbeddingGenerator and the index server behind VectorStore
    encode_calls,     \* history: the calls of self.model.encode, "batch" or "single"
    collections,      \* the names of the collections that exist on the server
    store_pc,         \* per VectorStore object: "new", "create", "ready", "raised"
    create_log,       \* history: the create_collection requests, in order
    store_op,         \* history: the last add_chunks / delete_scan_data call
    store_calls,      \* how many add_chunks / delete_scan_data calls were made
    \* ---- CodeIngestion.cleanup: one call and the file system it acts on
    cleanup_dir,      \* the directory argument of cleanup, a path
    dir_exists,       \* os.path.exists(directory) when cleanup is called
    removed,          \* the directories shutil.rmtree has removed
    ipc               \* "ready" before the call of cleanup, "done" after, "idle"

chunkerVars == <<chunk_size, chunk_overlap, encoding, content, language_arg, chunks, cpc>>

llmSettings == <<ollama_client, openai_client, use_openai_fallback,
                 ollama_model, ollama_fallback_model>>

llmVars == <<llmSettings, lpc, attempts, llm_result, llm_raised, context_arg, prompt>>

scanArgs == <<repository_url, repository_path, file_paths, directory>>

storeVars == <<collections, store_pc, create_log, store_op, store_calls>>

\* what a call of scan works on, besides the collection's points
scanLocals == <<spc, scan_id, repo_path, files, total_files, all_chunks,
                embeddings, fi, context, all_issues, scanned_files, result, returns,
                escaped, cleaned, file_log, failed_stage>>

ingestVars == <<cleanup_dir, dir_exists, removed, ipc>>

scanVars == <<scanArgs, scanLocals, points, uuids, encode_calls, storeVars, ingestVars>>

vars == <<chunkerVars, llmVars, scanVars>>

-----------------------------------------------------------------------------
(* Bounds of the model *)

MaxContentLen == 9
MaxChunkSize == 2
MaxOverlap == 2
MaxFiles == 3
MaxPathLen == 4
MaxContext == 4

-----------------------------------------------------------------------------
(* Texts *)

NL == "\n"

Chars == {NL, "x"}

RECURSIVE TextsUpTo(_)
TextsUpTo(n) ==
    IF n = 0 THEN {<<>>}
    ELSE LET shorter == TextsUpTo(n - 1)
         IN  shorter \cup {Append(t, c) : t \in {s \in shorter : Len(s) = n - 1}, c \in Chars}

Range(s) == {s[i] : i \in DOMAIN s}

\* str.split("\n"): the pieces between separators; never an empty list
RECURSIVE Split(_)
Split(text) ==
    IF \A i \in DOMAIN text : text[i] # NL
    THEN <<text>>
    ELSE LET i == CHOOSE k \in DOMAIN text :
                      text[k] = NL /\ \A j \in 1..(k - 1) : text[j] # NL
         IN  <<SubSeq(text, 1, i - 1)>> \o Split(SubSeq(text, i + 1, Len(text)))

\* "\n".join(lines)
RECURSIVE Join(_)
Join(lines) ==
    IF lines = <<>> THEN <<>>
    ELSE IF Len(lines) = 1 THEN lines[1]
    ELSE lines[1] \o <<NL>> \o Join(Tail(lines))

\* {**f, **g}: the keys of both, g's value where both have the key
Merge(f, g) ==
    [k \in (DOMAIN f) \cup (DOMAIN g) |-> IF k \in DOMAIN g THEN g[k] ELSE f[k]]

-----------------------------------------------------------------------------
(* CodeChunker *)

CHUNK_SIZE == 500
CHUNK_OVERLAP == 100

StructureLanguages == {"python", "javascript", "typescript", "java", "go", "rust"}

\* len(self.encoding.encode(text)) of the external tokenizer: the model's
\* tokenizer gives every character one token
TokenizerEncode(text) == Len(text)

_count_tokens(text) ==
    IF encoding THEN TokenizerEncode(text) ELSE Len(text) \div 4

RECURSIVE SumTokens(_)
SumTokens(lines) ==
    IF lines = <<>> THEN 0 ELSE _count_tokens(Head(lines)) + SumTokens(Tail(lines))

\* OverlapWalk that stops when the budget is reached, not when it is exceeded
RECURSIVE OverlapWalkStrict(_, _, _, _, _)
OverlapWalkStrict(lines, k, acc, tokens, overlap_tokens) ==
    IF k = 0 THEN acc
    ELSE LET line_tokens == _count_tokens(lines[k])
         IN  IF tokens + line_tokens >= overlap_tokens
             THEN acc
             ELSE OverlapWalkStrict(lines, k - 1, <<lines[k]>> \o acc,
                                    tokens + line_tokens, overlap_tokens)

\* the walk of _get_overlap_lines from line k of lines backwards: acc holds the
\* lines taken so far (in original order) and tokens their count
RECURSIVE OverlapWalk(_, _, _, _, _)
OverlapWalk(lines, k, acc, tokens, overlap_tokens) ==
    IF k = 0 THEN acc
    ELSE LET line_tokens == _count_tokens(lines[k])
         IN  IF tokens + line_tokens > overlap_tokens
             THEN acc
             ELSE OverlapWalk(lines, k - 1, <<lines[k]>> \o acc,
                              tokens + line_tokens, overlap_tokens)

_get_overlap_lines(lines, overlap_tokens) ==
    OverlapWalk(lines, Len(lines), <<>>, 0, overlap_tokens)

\* MakeChunk that closes the chunk at the line after end_line
MakeChunkClosesLate(st, file_path, language, metadata, end_line) ==
    [content    |-> Join(st.current_chunk_lines),
     file_path  |-> file_path,
     language   |-> language,
     start_line |-> st.current_start_line,
     end_line   |-> end_line + 1,
     metadata   |-> Merge(metadata, [chunk_index |-> Len(st.chunks)])]

\* the dictionary appended to chunks when a chunk is closed at end_line
MakeChunk(st, file_path, language, metadata, end_line) ==
    [content    |-> Join(st.current_chunk_lines),
     file_path  |-> file_path,
     language   |-> language,
     start_line |-> st.current_start_line,
     end_line   |-> end_line,
     metadata   |-> Merge(metadata, [chunk_index |-> Len(st.chunks)])]

ChunkerStart ==
    [chunks |-> <<>>, current_chunk_lines |-> <<>>, current_tokens |-> 0,
     current_start_line |-> 1]

\* StructureStep whose test does not ask for a line in the open chunk
StructureStepClosesEmpty(st, lines, i, file_path, language, metadata) ==
    LET line == lines[i]
        line_tokens == _count_tokens(line)
    IN  IF st.current_tokens + line_tokens > chunk_size
        THEN LET overlap_lines == _get_overlap_lines(st.current_chunk_lines, chunk_overlap)
                 new_lines == overlap_lines \o <<line>>
             IN  [chunks |-> Append(st.chunks,
                                    MakeChunk(st, file_path, language, metadata, i - 1)),
                  current_chunk_lines |-> new_lines,
                  current_tokens |-> SumTokens(new_lines),
                  current_start_line |-> i - Len(overlap_lines)]
        ELSE [st EXCEPT !.current_chunk_lines = Append(@, line),
                        !.current_tokens = @ + line_tokens]

\* one iteration of the loop of _chunk_by_structure, at line i
StructureStep(st, lines, i, file_path, language, metadata) ==
    LET line == lines[i]
        line_tokens == _count_tokens(line)
    IN  IF st.current_tokens + line_tokens > chunk_size /\ st.current_chunk_lines # <<>>
        THEN LET overlap_lines == _get_overlap_lines(st.current_chunk_lines, chunk_overlap)
                 new_lines == overlap_lines \o <<line>>
             IN  [chunks |-> Append(st.chunks,
                                    MakeChunk(st, file_path, language, metadata, i - 1)),
                  current_chunk_lines |-> new_lines,
                  current_tokens |-> SumTokens(new_lines),
                  current_start_line |-> i - Len(overlap_lines)]
        ELSE [st EXCEPT !.current_chunk_lines = Append(@, line),
                        !.current_tokens = @ + line_tokens]

RECURSIVE StructureLoop(_, _, _, _, _, _)
StructureLoop(st, lines, i, file_path, language, metadata) ==
    IF i > Len(lines) THEN st
    ELSE StructureLoop(StructureStep(st, lines, i, file_path, language, metadata),
                       lines, i + 1, file_path, language, metadata)

\* FinalChunks without lines 118-133: the chunk under construction is lost
FinalChunksDropped(st, lines, file_path, language, metadata) ==
    st.chunks

\* the final chunk, appended when lines remain in the chunk under construction
FinalChunks(st, lines, file_path, language, metadata) ==
    IF st.current_chunk_lines # <<>>
    THEN Append(st.chunks, MakeChunk(st, file_path, language, metadata, Len(lines)))
    ELSE st.chunks

_chunk_by_structure(text, file_path, language, metadata) ==
    LET lines == Split(text)
    IN  FinalChunks(StructureLoop(ChunkerStart, lines, 1, file_path, language, metadata),
                    lines, file_path, language, metadata)

\* TokensStep that starts the new chunk without the overlap lines
TokensStepNoOverlap(st, lines, i, file_path, language, metadata) ==
    LET line == lines[i]
        line_tokens == _count_tokens(line)
    IN  IF st.current_tokens + line_tokens > chunk_size /\ st.current_chunk_lines # <<>>
        THEN [chunks |-> Append(st.chunks,
                                MakeChunk(st, file_path, language, metadata, i - 1)),
              current_chunk_lines |-> <<line>>,
              current_tokens |-> line_tokens,
              current_start_line |-> i]
        ELSE [st EXCEPT !.current_chunk_lines = Append(@, line),
                        !.current_tokens = @ + line_tokens]

\* one iteration of the loop of _chunk_by_tokens, at line i
TokensStep(st, lines, i, file_path, language, metadata) ==
    LET line == lines[i]
        line_tokens == _count_tokens(line)
    IN  IF st.current_tokens + line_tokens > chunk_size /\ st.current_chunk_lines # <<>>
        THEN LET overlap_lines == _get_overlap_lines(st.current_chunk_lines, chunk_overlap)
                 new_lines == overlap_lines \o <<line>>
             IN  [chunks |-> Append(st.chunks,
                                    MakeChunk(st, file_path, language, metadata, i - 1)),
                  current_chunk_lines |-> new_lines,
                  current_tokens |-> SumTokens(new_lines),
                  current_start_line |-> i - Len(overlap_lines)]
        ELSE [st EXCEPT !.current_chunk_lines = Append(@, line),
                        !.current_tokens = @ + line_tokens]

RECURSIVE TokensLoop(_, _, _, _, _, _)
TokensLoop(st, lines, i, file_path, language, metadata) ==
    IF i > Len(lines) THEN st
    ELSE TokensLoop(TokensStep(st, lines, i, file_path, language, metadata),
                    lines, i + 1, file_path, language, metadata)

_chunk_by_tokens(text, file_path, language, metadata) ==
    LET lines == Split(text)
    IN  FinalChunks(TokensLoop(ChunkerStart, lines, 1, file_path, language, metadata),
                    lines, file_path, language, metadata)

chunk_file(text, file_path, language, metadata) ==
    IF language \in StructureLanguages
    THEN _chunk_by_structure(text, file_path, language, metadata)
    ELSE _chunk_by_tokens(text, file_path, language, metadata)

-----------------------------------------------------------------------------
(* Values exchanged with the language-model providers *)

\* dict.get(key, default)
Get(d, key, default) == IF key \in DOMAIN d THEN d[key] ELSE default

(* A parsed JSON value is [kind, members]: kind "object" with members the   *)
(* dictionary (key -> list of items), or kind "null" / "string" with no     *)
(* members.  An item is a dictionary of its fields.                         *)
JsonObject(members) == [kind |-> "object", members |-> members]
JsonNull == [kind |-> "null", members |-> <<>>]
JsonString == [kind |-> "string", members |-> <<>>]

\* Python truth value of a parsed value: None and an empty dict are false
Truthy(v) ==
    CASE v.kind = "object" -> DOMAIN v.members # {}
      [] v.kind = "null"   -> FALSE
      [] OTHER             -> TRUE

\* the members some provider answers carry
OneVuln ==
    [vulnerabilities |-> <<[severity |-> "high", start_line |-> 1, end_line |-> 1]>>]
FullAnswer ==
    [vulnerabilities |-> <<[start_line |-> 2]>>,
     code_review     |-> <<[severity |-> "LOW", start_line |-> 1, end_line |-> 2], <<>>>>,
     auto_comments   |-> <<[line |-> 3, severity |-> "critical"]>>]
BadSeverity ==
    [code_review     |-> <<[severity |-> "medium"]>>,
     vulnerabilities |-> <<[severity |-> "critical"], [severity |-> "urgent"]>>]
AllEmpty ==
    [vulnerabilities |-> <<>>, code_review |-> <<>>, auto_comments |-> <<>>]

(* A response text is a sequence of tokens [t, v]: a code fence, the word   *)
(* json, white space, a brace, prose, the literals null and "..." and, for  *)
(* t = "members", the text of the members v of a JSON object.               *)
Tok(t) == [t |-> t, v |-> <<>>]
Fence == Tok("fence")
JsonWord == Tok("json")
Ws == Tok("ws")
LBrace == Tok("lbrace")
RBrace == Tok("rbrace")
Prose == Tok("prose")
NullLit == Tok("null")
Quoted == Tok("quoted")
Members(v) == [t |-> "members", v |-> v]

\* text.strip()
RECURSIVE Strip(_)
Strip(text) ==
    IF text = <<>> THEN text
    ELSE IF Head(text) = Ws THEN Strip(Tail(text))
    ELSE IF text[Len(text)] = Ws THEN Strip(SubSeq(text, 1, Len(text) - 1))
    ELSE text

\* the index after a run of white space starting at i (the match of \s*)
RECURSIVE SkipWs(_, _)
SkipWs(text, i) ==
    IF i <= Len(text) /\ text[i] = Ws THEN SkipWs(text, i + 1) ELSE i

\* whether text[i..] matches \s*```
FenceFollows(text, i) ==
    LET j == SkipWs(text, i) IN j <= Len(text) /\ text[j] = Fence

\* the match of ```(?:json)?\s*(\{.*\})\s*``` starting at the fence at i:
\* <<a, b>>, the span of group 1, or <<>> when there is none
FencedAt(text, i) ==
    LET afterWord == IF i + 1 <= Len(text) /\ text[i + 1] = JsonWord THEN i + 2 ELSE i + 1
        a == SkipWs(text, afterWord)
        ends == {b \in (a + 1)..Len(text) : text[b] = RBrace /\ FenceFollows(text, b + 1)}
    IN  IF text[i] = Fence /\ a <= Len(text) /\ text[a] = LBrace /\ ends # {}
        THEN <<a, CHOOSE b \in ends : \A c \in ends : c <= b>>
        ELSE <<>>

_extract_json(text) ==
    LET fenced == {i \in DOMAIN text : FencedAt(text, i) # <<>>}
        opens == {i \in DOMAIN text : text[i] = LBrace}
        closes == {i \in DOMAIN text : text[i] = RBrace}
        first == CHOOSE i \in opens : \A j \in opens : i <= j
        last == CHOOSE i \in closes : \A j \in closes : j <= i
    IN  IF fenced # {}
        THEN LET m == FencedAt(text, CHOOSE i \in fenced : \A j \in fenced : i <= j)
             IN  SubSeq(text, m[1], m[2])
        ELSE IF opens # {} /\ closes # {} /\ first < last
        THEN SubSeq(text, first, last)
        ELSE Strip(text)

\* json.loads(text): [ok |-> TRUE, value |-> v], or ok FALSE when it raises
ParseError == [ok |-> FALSE, value |-> JsonNull]
Parsed(v) == [ok |-> TRUE, value |-> v]

json_loads(text) ==
    LET t == SelectSeq(text, LAMBDA tok : tok # Ws)
    IN  IF t = <<LBrace, RBrace>> THEN Parsed(JsonObject(<<>>))
        ELSE IF Len(t) = 3 /\ t[1] = LBrace /\ t[2].t = "members" /\ t[3] = RBrace
        THEN Parsed(JsonObject(t[2].v))
        ELSE IF t = <<NullLit>> THEN Parsed(JsonNull)
        ELSE IF t = <<Quoted>> THEN Parsed(JsonString)
        ELSE ParseError

\* what a provider call may do: raise (transport), or answer with a text
Transport == [raised |-> TRUE, text |-> <<>>]
Answer(text) == [raised |-> FALSE, text |-> text]

ResponseTexts ==
    { <<LBrace, Members(OneVuln), RBrace>>,
      <<Fence, JsonWord, Ws, LBrace, Members(FullAnswer), RBrace, Ws, Fence>>,
      <<Prose, Ws, LBrace, Members(OneVuln), RBrace, Prose>>,
      <<Fence, LBrace, Members(FullAnswer), RBrace, Fence, Prose, LBrace, RBrace>>,
      <<LBrace, Members(BadSeverity), RBrace>>,
      <<LBrace, Members(AllEmpty), RBrace>>,
      <<LBrace, Ws, RBrace>>,
      <<Ws, NullLit, Ws>>,
      <<Quoted>>,
      <<Prose>>,
      <<LBrace, Members(OneVuln)>>,
      <<Prose, RBrace, LBrace>>,
      <<>> }

ProviderReplies == {Transport} \cup {Answer(t) : t \in ResponseTexts}

-----------------------------------------------------------------------------
(* LLMEngine *)

\* the value of "return {vulnerabilities: [], code_review: [], auto_comments: []}"
ExhaustedResult == JsonObject(AllEmpty)

\* the body of the try of _analyze_with_ollama for one generate call:
\* response.get("response", ""), _extract_json, json.loads
OllamaAttempt(reply) ==
    IF reply.raised THEN ParseError ELSE json_loads(_extract_json(reply.text))

\* _analyze_with_openai: content or "{}", _extract_json, json.loads; it
\* raises what the call or json.loads raise
_analyze_with_openai(reply) ==
    IF reply.raised THEN ParseError
    ELSE json_loads(_extract_json(IF reply.text = <<>> THEN <<LBrace, RBrace>>
                                  ELSE reply.text))

Outcome(reply, parsed) ==
    IF reply.raised THEN "transport" ELSE IF parsed.ok THEN "ok" ELSE "parse"

Attempt(candidate, model, reply, parsed) ==
    [candidate |-> candidate, model |-> model,
     outcome |-> Outcome(reply, parsed), value |-> parsed.value]

\* analyze_code returns value
Return(value) ==
    /\ lpc' = "returned"
    /\ llm_result' = value
    /\ llm_raised' = FALSE

\* AfterOllama without the test of settings.use_openai_fallback
AfterOllamaIgnoresSetting ==
    IF openai_client
    THEN lpc' = "secondary" /\ UNCHANGED <<llm_result, llm_raised>>
    ELSE Return(ExhaustedResult)

\* analyze_code after the Ollama block, lines 67-80: the OpenAI call is made
\* when a client exists and the fallback is enabled
AfterOllama ==
    IF openai_client /\ use_openai_fallback
    THEN lpc' = "secondary" /\ UNCHANGED <<llm_result, llm_raised>>
    ELSE Return(ExhaustedResult)

\* "if result: return result" on what _analyze_with_ollama returned
OllamaReturned(parsed) ==
    IF Truthy(parsed.value) THEN Return(parsed.value) ELSE AfterOllama

\* the prompt before analyze_code is called
NoPrompt == [has_context |-> FALSE, context_chunks |-> <<>>]

\* the block of line 93 for one context chunk
ContextBlock(ctx) ==
    [file_path  |-> Get(ctx, "file_path", "unknown"),
     start_line |-> Get(ctx, "start_line", 0),
     end_line   |-> Get(ctx, "end_line", 0),
     language   |-> Get(ctx, "language", ""),
     content    |-> Get(ctx, "content", <<>>)]

\* _build_analysis_prompt that renders every context chunk
_build_analysis_promptUncut(ctxs) ==
    IF ctxs # <<>>
    THEN [has_context |-> TRUE,
          context_chunks |-> [k \in DOMAIN ctxs |-> ContextBlock(ctxs[k])]]
    ELSE NoPrompt

\* _build_analysis_prompt, lines 89-93: context_text, with its header when
\* the context is not empty, and the blocks of context[:3]
_build_analysis_prompt(ctxs) ==
    IF ctxs # <<>>
    THEN LET top == SubSeq(ctxs, 1, IF Len(ctxs) < 3 THEN Len(ctxs) ELSE 3)
         IN  [has_context |-> TRUE,
              context_chunks |-> [k \in DOMAIN top |-> ContextBlock(top[k])]]
    ELSE NoPrompt

\* analyze_code is called: the prompt is built and the first call is issued
analyze_code(ctxs) ==
    /\ lpc = "idle"
    /\ context_arg' = ctxs
    /\ prompt' = _build_analysis_prompt(ctxs)
    /\ attempts' = <<>>
    /\ IF ollama_client
       THEN lpc' = "primary" /\ UNCHANGED <<llm_result, llm_raised>>
       ELSE AfterOllama
    /\ UNCHANGED llmSettings

\* OllamaPrimary without the comparison of the two model names of line 173
OllamaPrimaryAlwaysFallsBack ==
    /\ lpc = "primary"
    /\ \E reply \in ProviderReplies :
          LET parsed == OllamaAttempt(reply)
          IN  /\ attempts' = Append(attempts,
                                    Attempt("primary", ollama_model, reply, parsed))
              /\ IF parsed.ok
                 THEN OllamaReturned(parsed)
                 ELSE lpc' = "fallback" /\ UNCHANGED <<llm_result, llm_raised>>
    /\ UNCHANGED <<llmSettings, context_arg, prompt>>

\* OllamaPrimary with json.loads of line 169 behind the try: a response that
\* does not parse leaves _analyze_with_ollama as an exception
OllamaPrimaryParsesOutsideTry ==
    /\ lpc = "primary"
    /\ \E reply \in ProviderReplies :
          LET parsed == OllamaAttempt(reply)
          IN  /\ attempts' = Append(attempts,
                                    Attempt("primary", ollama_model, reply, parsed))
              /\ IF parsed.ok
                 THEN OllamaReturned(parsed)
                 ELSE IF reply.raised /\ ollama_fallback_model # ollama_model
                 THEN lpc' = "fallback" /\ UNCHANGED <<llm_result, llm_raised>>
                 ELSE AfterOllama
    /\ UNCHANGED <<llmSettings, context_arg, prompt>>

\* the generate call with settings.ollama_model ends
OllamaPrimary ==
    /\ lpc = "primary"
    /\ \E reply \in ProviderReplies :
          LET parsed == OllamaAttempt(reply)
          IN  /\ attempts' = Append(attempts,
                                    Attempt("primary", ollama_model, reply, parsed))
              /\ IF parsed.ok
                 THEN OllamaReturned(parsed)
                 ELSE IF ollama_fallback_model # ollama_model
                 THEN lpc' = "fallback" /\ UNCHANGED <<llm_result, llm_raised>>
                 ELSE AfterOllama
    /\ UNCHANGED <<llmSettings, context_arg, prompt>>

\* the generate call with settings.ollama_fallback_model ends
OllamaFallback ==
    /\ lpc = "fallback"
    /\ \E reply \in ProviderReplies :
          LET parsed == OllamaAttempt(reply)
          IN  /\ attempts' = Append(attempts,
                                    Attempt("fallback", ollama_fallback_model, reply, parsed))
              /\ IF parsed.ok THEN OllamaReturned(parsed) ELSE AfterOllama
    /\ UNCHANGED <<llmSettings, context_arg, prompt>>

\* OpenAIReturned without the try of lines 69-72: the exception leaves
OpenAIReturnedPropagates(parsed) ==
    IF parsed.ok THEN Return(parsed.value)
    ELSE lpc' = "returned" /\ llm_raised' = TRUE /\ UNCHANGED llm_result

\* OpenAIReturned with the "if result" test of line 62 applied to it too
OpenAIReturnedChecksTruth(parsed) ==
    IF parsed.ok /\ Truthy(parsed.value) THEN Return(parsed.value)
    ELSE Return(ExhaustedResult)

\* what analyze_code does with the outcome of _analyze_with_openai
OpenAIReturned(parsed) ==
    IF parsed.ok THEN Return(parsed.value) ELSE Return(ExhaustedResult)

\* the chat completion call ends
OpenAISecondary ==
    /\ lpc = "secondary"
    /\ \E reply \in ProviderReplies :
          LET parsed == _analyze_with_openai(reply)
          IN  /\ attempts' = Append(attempts, Attempt("secondary", "openai", reply, parsed))
              /\ OpenAIReturned(parsed)
    /\ UNCHANGED <<llmSettings, context_arg, prompt>>

-----------------------------------------------------------------------------
(* EmbeddingGenerator and VectorStore *)

Count(text, c) == Cardinality({i \in DOMAIN text : text[i] = c})

\* self.model.encode of the external sentence-transformer: the model's
\* embedding of a text counts its "x" and its line separators
ModelEncode(text) == <<Count(text, "x") + 1, Count(text, NL) + 1>>

\* generate_embeddings returning the rows of the model's output last first
generate_embeddingsReversed(texts) ==
    [i \in DOMAIN texts |-> ModelEncode(texts[Len(texts) + 1 - i])]

\* generate_embeddings: [] for no texts, else one vector per text, in order
generate_embeddings(texts) ==
    IF texts = <<>> THEN <<>> ELSE [i \in DOMAIN texts |-> ModelEncode(texts[i])]

generate_embedding(text) == ModelEncode(text)

\* generate_embeddings with the test of lines 39-40 removed
BatchCallsAlways(texts) == <<[kind |-> "batch", count |-> Len(texts)]>>

\* the calls of self.model.encode that generate_embeddings(texts) makes: none
\* for no texts (lines 39-40), else the one of line 43
BatchCalls(texts) ==
    IF texts = <<>> THEN <<>> ELSE <<[kind |-> "batch", count |-> Len(texts)]>>

\* the call of self.model.encode that generate_embedding makes, line 56
SingleCall == <<[kind |-> "single", count |-> 1]>>

\* VectorParams(size=384): the size of the collection's vectors; the model's
\* embedding model gives vectors of 2 components where all-MiniLM-L6-v2
\* gives 384
VECTOR_SIZE == 2

Dot(a, b) == a[1] * b[1] + a[2] * b[2]

\* cosine similarity of two vectors of non-negative components, as the
\* integer percentage of its square (monotone in the cosine)
Score(a, b) == (100 * Dot(a, b) * Dot(a, b)) \div (Dot(a, a) * Dot(b, b))

\* the payload add_chunks builds for a chunk
Payload(chunk, sid) ==
    Merge([content    |-> chunk.content,
           file_path  |-> chunk.file_path,
           language   |-> chunk.language,
           start_line |-> chunk.start_line,
           end_line   |-> chunk.end_line,
           scan_id    |-> sid],
          chunk.metadata)

\* add_chunks with the length test of lines 61-62 moved behind the upsert:
\* the zipped pairs are written, then the ValueError is raised
add_chunksChecksLate(stored, chunk_list, vectors, sid, first_id) ==
    LET n == IF Len(chunk_list) < Len(vectors) THEN Len(chunk_list) ELSE Len(vectors)
    IN  [raised |-> Len(chunk_list) # Len(vectors),
         sent   |-> TRUE,
         points |-> stored \o [i \in 1..n |->
                                 [id      |-> first_id + i - 1,
                                  vector  |-> vectors[i],
                                  payload |-> Payload(chunk_list[i], sid)]]]

\* add_chunks with point ids taken from the position in the batch
add_chunksPositionalIds(stored, chunk_list, vectors, sid, first_id) ==
    IF Len(chunk_list) # Len(vectors)
    THEN [raised |-> TRUE, sent |-> FALSE, points |-> stored]
    ELSE [raised |-> FALSE,
          sent   |-> TRUE,
          points |-> stored \o [i \in DOMAIN chunk_list |->
                                  [id      |-> i,
                                   vector  |-> vectors[i],
                                   payload |-> Payload(chunk_list[i], sid)]]]

\* add_chunks(chunks, embeddings, scan_id) on the points stored in the collection;
\* first_id is the first fresh uuid.  raised: the ValueError of line 62, or
\* the error of the upsert request of line 84, which the server refuses as
\* a whole when a vector has not the collection's size.  sent: the upsert
\* request was issued
add_chunks(stored, chunk_list, vectors, sid, first_id) ==
    IF Len(chunk_list) # Len(vectors)
    THEN [raised |-> TRUE, sent |-> FALSE, points |-> stored]
    ELSE IF \E i \in DOMAIN vectors : Len(vectors[i]) # VECTOR_SIZE
    THEN [raised |-> TRUE, sent |-> TRUE, points |-> stored]
    ELSE [raised |-> FALSE,
          sent   |-> TRUE,
          points |-> stored \o [i \in DOMAIN chunk_list |->
                                  [id      |-> first_id + i - 1,
                                   vector  |-> vectors[i],
                                   payload |-> Payload(chunk_list[i], sid)]]]

Matches(point, filter_dict) ==
    \A key \in DOMAIN filter_dict :
        key \in DOMAIN point.payload /\ point.payload[key] = filter_dict[key]

PayloadKeys == {"content", "file_path", "language", "start_line", "end_line"}

\* the dictionary search returns for a point
SearchHit(point, query_embedding) ==
    [score      |-> Score(query_embedding, point.vector),
     content    |-> point.payload.content,
     file_path  |-> point.payload.file_path,
     language   |-> point.payload.language,
     start_line |-> point.payload.start_line,
     end_line   |-> point.payload.end_line,
     metadata   |-> [k \in (DOMAIN point.payload) \ PayloadKeys |-> point.payload[k]]]

\* search that builds no query filter from filter_dict
searchUnfiltered(stored, query_embedding, limit, filter_dict) ==
    LET cands == DOMAIN stored
        sc(i) == Score(query_embedding, stored[i].vector)
        n == IF Cardinality(cands) < limit THEN Cardinality(cands) ELSE limit
        orders == {o \in [1..n -> cands] :
                      /\ \A a, b \in 1..n : a < b => o[a] # o[b] /\ sc(o[a]) >= sc(o[b])
                      /\ \A c \in cands : (\A a \in 1..n : o[a] # c) =>
                                              \A a \in 1..n : sc(o[a]) >= sc(c)}
    IN  {[a \in 1..n |-> SearchHit(stored[o[a]], query_embedding)] : o \in orders}

\* search(query_embedding, limit, filter_dict): the result lists the index
\* may answer with: the limit best matching stored, best first; stored of
\* equal score come in any order
search(stored, query_embedding, limit, filter_dict) ==
    LET cands == {i \in DOMAIN stored : Matches(stored[i], filter_dict)}
        sc(i) == Score(query_embedding, stored[i].vector)
        n == IF Cardinality(cands) < limit THEN Cardinality(cands) ELSE limit
        orders == {o \in [1..n -> cands] :
                      /\ \A a, b \in 1..n : a < b => o[a] # o[b] /\ sc(o[a]) >= sc(o[b])
                      /\ \A c \in cands : (\A a \in 1..n : o[a] # c) =>
                                              \A a \in 1..n : sc(o[a]) >= sc(c)}
    IN  {[a \in 1..n |-> SearchHit(stored[o[a]], query_embedding)] : o \in orders}

\* delete_scan_data that sends its delete request without the filter
delete_scan_dataUnfiltered(stored, sid) == <<>>

\* delete_scan_data(scan_id): what the collection holds after the delete
\* request whose filter is "payload scan_id matches scan_id"
delete_scan_data(stored, sid) ==
    SelectSeq(stored, LAMBDA point : ~Matches(point, [scan_id |-> sid]))

\* settings.qdrant_collection_name
qdrant_collection_name == "codeguard_embeddings"

\* the VectorStore objects that exist (the scanner's, the delete route's)
Clients == {"scanner", "delete_scan"}

\* __init__ and lines 31-34 of _ensure_collection: the collections are
\* listed and the name is looked up in the list
EnsureCheck(c) ==
    /\ store_pc[c] = "new"
    /\ store_pc' = [store_pc EXCEPT
                      ![c] = IF qdrant_collection_name \notin collections
                             THEN "create" ELSE "ready"]
    /\ UNCHANGED <<collections, create_log>>

\* lines 35-43 of _ensure_collection: the create request is sent; the server
\* refuses to create a collection that exists, and the error leaves __init__
EnsureCreate(c) ==
    /\ store_pc[c] = "create"
    /\ create_log' = Append(create_log,
                            [client  |-> c,
                             existed |-> qdrant_collection_name \in collections])
    /\ IF qdrant_collection_name \in collections
       THEN /\ store_pc' = [store_pc EXCEPT ![c] = "raised"]
            /\ UNCHANGED collections
       ELSE /\ store_pc' = [store_pc EXCEPT ![c] = "ready"]
            /\ collections' = collections \cup {qdrant_collection_name}

-----------------------------------------------------------------------------
(* CodeScanner *)

None == "None"

\* Python truth value of an Optional[str]
IsSet(s) == s # None /\ s # ""

Severities == {"critical", "high", "medium", "low", "info"}

\* str.lower() on the severities providers send
Lower(s) ==
    CASE s = "LOW" -> "low"
      [] s = "HIGH" -> "high"
      [] OTHER -> s

\* VulnerabilityIssue with the default of a review finding, and the
\* end line defaulting to 1
VulnerabilityIssueOtherDefaults(vuln, file_path, id) ==
    LET severity == Lower(Get(vuln, "severity", "info"))
    IN  [raised |-> severity \notin Severities,
         issue  |-> [id |-> id, type |-> "vulnerability", severity |-> severity,
                     title |-> Get(vuln, "title", "Security vulnerability"),
                     location |-> [file_path  |-> file_path,
                                   start_line |-> Get(vuln, "start_line", 1),
                                   end_line   |-> Get(vuln, "end_line", 1)]]]

\* the Issue built from one item; raised when Severity(...) rejects the value
VulnerabilityIssue(vuln, file_path, id) ==
    LET severity == Lower(Get(vuln, "severity", "medium"))
    IN  [raised |-> severity \notin Severities,
         issue  |-> [id |-> id, type |-> "vulnerability", severity |-> severity,
                     title |-> Get(vuln, "title", "Security vulnerability"),
                     location |-> [file_path  |-> file_path,
                                   start_line |-> Get(vuln, "start_line", 1),
                                   end_line   |-> Get(vuln, "end_line",
                                                      Get(vuln, "start_line", 1))]]]

ReviewIssue(review, file_path, id) ==
    LET severity == Lower(Get(review, "severity", "info"))
    IN  [raised |-> severity \notin Severities,
         issue  |-> [id |-> id, type |-> "code_review", severity |-> severity,
                     title |-> Get(review, "title", "Code review finding"),
                     location |-> [file_path  |-> file_path,
                                   start_line |-> Get(review, "start_line", 1),
                                   end_line   |-> Get(review, "end_line",
                                                      Get(review, "start_line", 1))]]]

CommentIssue(comment, file_path, id) ==
    [raised |-> FALSE,
     issue  |-> [id |-> id, type |-> "auto_comment", severity |-> "info",
                 title |-> "Suggested comment",
                 location |-> [file_path  |-> file_path,
                               start_line |-> Get(comment, "line", 1),
                               end_line   |-> Get(comment, "line", 1)]]]

\* IssueOf with every item built as a vulnerability
IssueOfAlwaysVulnerability(key, item, file_path, id) ==
    VulnerabilityIssue(item, file_path, id)

IssueOf(key, item, file_path, id) ==
    CASE key = "vulnerabilities" -> VulnerabilityIssue(item, file_path, id)
      [] key = "code_review"     -> ReviewIssue(item, file_path, id)
      [] OTHER                   -> CommentIssue(item, file_path, id)

\* one of the three loops of _convert_analysis_to_issues, from item k on;
\* acc is [raised, issues, next_id]
RECURSIVE ConvertItems(_, _, _, _, _)
ConvertItems(acc, key, items, k, file_path) ==
    IF acc.raised \/ k > Len(items) THEN acc
    ELSE LET made == IssueOf(key, items[k], file_path, acc.next_id)
         IN  ConvertItems([raised  |-> made.raised,
                           issues  |-> IF made.raised THEN acc.issues
                                       ELSE Append(acc.issues, made.issue),
                           next_id |-> acc.next_id + 1],
                          key, items, k + 1, file_path)

\* _convert_analysis_to_issues(analysis, file_path, language): raised when
\* analysis has no get (it is no dictionary) or an item is rejected
_convert_analysis_to_issues(analysis, file_path, first_id) ==
    IF analysis.kind # "object"
    THEN [raised |-> TRUE, issues |-> <<>>, next_id |-> first_id]
    ELSE LET m == analysis.members
             v == ConvertItems([raised |-> FALSE, issues |-> <<>>, next_id |-> first_id],
                               "vulnerabilities", Get(m, "vulnerabilities", <<>>), 1,
                               file_path)
             r == ConvertItems(v, "code_review", Get(m, "code_review", <<>>), 1, file_path)
         IN  ConvertItems(r, "auto_comments", Get(m, "auto_comments", <<>>), 1, file_path)

\* Increment that assigns 1 instead of adding 1
IncrementAssigns(d, key) ==
    Merge(d, [k \in {key} |-> 1])

\* summary[group][key] = summary[group].get(key, 0) + 1
Increment(d, key) ==
    Merge(d, [k \in {key} |-> Get(d, key, 0) + 1])

RECURSIVE SummaryLoop(_, _, _)
SummaryLoop(summary, issues, k) ==
    IF k > Len(issues) THEN summary
    ELSE SummaryLoop([summary EXCEPT
                         !.by_severity = Increment(@, issues[k].severity),
                         !.by_type = Increment(@, issues[k].type)],
                     issues, k + 1)

_calculate_summary(issues) ==
    SummaryLoop([total_issues |-> Len(issues),
                 by_severity  |-> [critical |-> 0, high |-> 0, medium |-> 0,
                                   low |-> 0, info |-> 0],
                 by_type      |-> [vulnerability |-> 0, code_review |-> 0,
                                   auto_comment |-> 0]],
                issues, 1)

\* FailedResult reporting the counters the scan had reached
FailedResultKeepsCounts(error) ==
    [scan_id         |-> scan_id,
     status          |-> "failed",
     repository_url  |-> repository_url,
     repository_path |-> repository_path,
     total_files     |-> total_files,
     scanned_files   |-> scanned_files,
     issues          |-> all_issues,
     summary         |-> [error |-> error]]

\* the ScanResult of the except block of scan, lines 177-188
FailedResult(error) ==
    [scan_id         |-> scan_id,
     status          |-> "failed",
     repository_url  |-> repository_url,
     repository_path |-> repository_path,
     total_files     |-> 0,
     scanned_files   |-> 0,
     issues          |-> <<>>,
     summary         |-> [error |-> error]]

\* CompletedResult with total_files taken from the files that were analyzed
CompletedResultCountsScanned ==
    [scan_id         |-> scan_id,
     status          |-> "completed",
     repository_url  |-> repository_url,
     repository_path |-> repository_path,
     total_files     |-> scanned_files,
     scanned_files   |-> scanned_files,
     issues          |-> all_issues,
     summary         |-> _calculate_summary(all_issues)]

\* the ScanResult of lines 149-160
CompletedResult ==
    [scan_id         |-> scan_id,
     status          |-> "completed",
     repository_url  |-> repository_url,
     repository_path |-> repository_path,
     total_files     |-> total_files,
     scanned_files   |-> scanned_files,
     issues          |-> all_issues,
     summary         |-> _calculate_summary(all_issues)]

\* scan without its except block: the exception leaves scan
ExceptHandlerPropagates(error) ==
    /\ escaped' = TRUE
    /\ UNCHANGED <<result, returns>>

\* "except Exception as e" of scan: the failed result is returned
ExceptHandler(error) ==
    /\ result' = FailedResult(error)
    /\ returns' = returns + 1
    /\ UNCHANGED escaped

\* Raise with the cleanup in a finally clause
RaiseCleansUp(stage, error) ==
    /\ spc' = "done"
    /\ failed_stage' = stage
    /\ ExceptHandler(error)
    /\ cleaned' = IF IsSet(repository_url) /\ IsSet(repo_path)
                  THEN Append(cleaned, repo_path)
                  ELSE cleaned
    /\ UNCHANGED <<file_log, points, uuids>>

\* an exception raised at stage inside the try of scan, before the file loop
Raise(stage, error) ==
    /\ spc' = "done"
    /\ failed_stage' = stage
    /\ ExceptHandler(error)
    /\ UNCHANGED <<cleaned, file_log, points, uuids>>

\* what no step of scan before the file loop changes
LoopUnchanged == UNCHANGED <<fi, context, all_issues, scanned_files, file_log>>

\* scan is called, lines 52-55: the scan identifier is drawn
ScanBegin ==
    /\ spc = "call"
    /\ scan_id' = uuids
    /\ uuids' = uuids + 1
    /\ spc' = "resolve"
    /\ UNCHANGED <<repo_path, files, total_files, all_chunks, embeddings, points>>
    /\ UNCHANGED <<result, returns, escaped, cleaned, failed_stage>>
    /\ LoopUnchanged
    /\ UNCHANGED <<ingestVars, storeVars, encode_calls, scanArgs, llmVars, chunkerVars>>

\* step 1, lines 59-66: the clone is started, or the local path taken, or
\* the ValueError raised
ResolveSource ==
    /\ spc = "resolve"
    /\ IF IsSet(repository_url)
       THEN /\ spc' = "clone"
            /\ UNCHANGED <<repo_path, failed_stage, result, returns, escaped, cleaned,
                           points, uuids, file_log>>
       ELSE IF IsSet(repository_path)
       THEN /\ spc' = "list"
            /\ repo_path' = repository_path
            /\ UNCHANGED <<failed_stage, result, returns, escaped, cleaned,
                           points, uuids, file_log>>
       ELSE /\ Raise("resolve", "Either repository_url or repository_path must be provided")
            /\ UNCHANGED repo_path
    /\ UNCHANGED <<scan_id, files, total_files, all_chunks, embeddings>>
    /\ UNCHANGED <<fi, context, all_issues, scanned_files>>
    /\ UNCHANGED <<ingestVars, storeVars, encode_calls, scanArgs, llmVars, chunkerVars>>

\* clone_repository returns the temporary directory it cloned into
CloneReturns ==
    /\ spc = "clone"
    /\ repo_path' = "/tmp/codeguard_clone"
    /\ spc' = "list"
    /\ UNCHANGED <<scan_id, files, total_files, all_chunks, embeddings, points, uuids>>
    /\ UNCHANGED <<result, returns, escaped, cleaned, failed_stage>>
    /\ LoopUnchanged
    /\ UNCHANGED <<ingestVars, storeVars, encode_calls, scanArgs, llmVars, chunkerVars>>

\* clone_repository raises (GitCommandError)
CloneRaises ==
    /\ spc = "clone"
    /\ Raise("clone", "git clone failed")
    /\ UNCHANGED <<scan_id, repo_path, files, total_files, all_chunks, embeddings>>
    /\ UNCHANGED <<fi, context, all_issues, scanned_files>>
    /\ UNCHANGED <<ingestVars, storeVars, encode_calls, scanArgs, llmVars, chunkerVars>>

\* FilterFiles that applies the allow-list even when it is empty
FilterFilesAlways(listing, wanted) ==
    SelectSeq(listing, LAMBDA f : f.path \in Range(wanted))

\* "if file_paths: files = [f for f in files if f["path"] in file_paths]"
FilterFiles(listing, wanted) ==
    IF wanted # <<>>
    THEN SelectSeq(listing, LAMBDA f : f.path \in Range(wanted))
    ELSE listing

\* step 2, lines 69-79: scan_directory returns the files of the directory,
\* the allow-list is applied and the files are counted
ScanDirectoryReturns ==
    /\ spc = "list"
    /\ files' = FilterFiles(directory, file_paths)
    /\ total_files' = Len(files')
    /\ spc' = "chunk"
    /\ UNCHANGED <<scan_id, repo_path, all_chunks, embeddings, points, uuids>>
    /\ UNCHANGED <<result, returns, escaped, cleaned, failed_stage>>
    /\ LoopUnchanged
    /\ UNCHANGED <<ingestVars, storeVars, encode_calls, scanArgs, llmVars, chunkerVars>>

\* scan_directory raises (the directory does not exist)
ScanDirectoryRaises ==
    /\ spc = "list"
    /\ Raise("list", "Directory does not exist")
    /\ UNCHANGED <<scan_id, repo_path, files, total_files, all_chunks, embeddings>>
    /\ UNCHANGED <<fi, context, all_issues, scanned_files>>
    /\ UNCHANGED <<ingestVars, storeVars, encode_calls, scanArgs, llmVars, chunkerVars>>

\* ChunkAll whose loop leaves after the first file
RECURSIVE ChunkAllFirstOnly(_, _)
ChunkAllFirstOnly(fs, k) ==
    IF k > Len(fs) \/ k > 1 THEN <<>>
    ELSE chunk_file(fs[k].content, fs[k].path, fs[k].language,
                    [file_size |-> fs[k].size, lines |-> fs[k].lines])

\* all_chunks after the loop of lines 85-92 over the files from k on
RECURSIVE ChunkAll(_, _)
ChunkAll(fs, k) ==
    IF k > Len(fs) THEN <<>>
    ELSE chunk_file(fs[k].content, fs[k].path, fs[k].language,
                    [file_size |-> fs[k].size, lines |-> fs[k].lines])
         \o ChunkAll(fs, k + 1)

\* step 3, lines 82-92: every file is chunked
ChunkFiles ==
    /\ spc = "chunk"
    /\ all_chunks' = ChunkAll(files, 1)
    /\ spc' = "embed"
    /\ UNCHANGED <<scan_id, repo_path, files, total_files, embeddings, points, uuids>>
    /\ UNCHANGED <<result, returns, escaped, cleaned, failed_stage>>
    /\ LoopUnchanged
    /\ UNCHANGED <<ingestVars, storeVars, encode_calls, scanArgs, llmVars, chunkerVars>>

\* chunk_file raises (the tokenizer rejects a text)
ChunkFilesRaises ==
    /\ spc = "chunk"
    /\ files # <<>>
    /\ encoding
    /\ Raise("chunk", "tokenizer rejected the text")
    /\ UNCHANGED <<scan_id, repo_path, files, total_files, all_chunks, embeddings>>
    /\ UNCHANGED <<fi, context, all_issues, scanned_files>>
    /\ UNCHANGED <<ingestVars, storeVars, encode_calls, scanArgs, llmVars, chunkerVars>>

\* lines 95-96: the chunk texts are embedded in one call
EmbedChunks ==
    /\ spc = "embed"
    /\ LET chunk_texts == [i \in DOMAIN all_chunks |-> all_chunks[i].content]
       IN  /\ embeddings' = generate_embeddings(chunk_texts)
           /\ encode_calls' = encode_calls \o BatchCalls(chunk_texts)
    /\ spc' = "upsert"
    /\ UNCHANGED <<scan_id, repo_path, files, total_files, all_chunks, points, uuids>>
    /\ UNCHANGED <<result, returns, escaped, cleaned, failed_stage>>
    /\ LoopUnchanged
    /\ UNCHANGED <<ingestVars, storeVars, scanArgs, llmVars, chunkerVars>>

\* the embedding model raises
EmbedChunksRaises ==
    /\ spc = "embed"
    /\ all_chunks # <<>>
    /\ Raise("embed", "embedding model failed")
    /\ encode_calls' = encode_calls
                          \o BatchCalls([i \in DOMAIN all_chunks |-> all_chunks[i].content])
    /\ UNCHANGED <<scan_id, repo_path, files, total_files, all_chunks, embeddings>>
    /\ UNCHANGED <<fi, context, all_issues, scanned_files>>
    /\ UNCHANGED <<ingestVars, storeVars, scanArgs, llmVars, chunkerVars>>

\* line 99: add_chunks stores the points, or raises its ValueError
AddChunks ==
    /\ spc = "upsert"
    /\ LET added == add_chunks(points, all_chunks, embeddings, scan_id, uuids)
       IN  IF added.raised
           THEN /\ Raise("upsert", "Chunks and embeddings must have same length")
                /\ UNCHANGED <<fi, all_issues, scanned_files>>
           ELSE /\ points' = added.points
                /\ uuids' = uuids + Len(all_chunks)
                /\ spc' = "files"
                /\ fi' = 1
                /\ all_issues' = <<>>
                /\ scanned_files' = 0
                /\ UNCHANGED <<result, returns, escaped, cleaned, failed_stage, file_log>>
    /\ UNCHANGED <<scan_id, repo_path, files, total_files, all_chunks, embeddings, context>>
    /\ UNCHANGED <<ingestVars, storeVars, encode_calls, scanArgs, llmVars, chunkerVars>>

\* the upsert request raises (the index is unreachable)
AddChunksRaises ==
    /\ spc = "upsert"
    /\ Raise("upsert", "vector index unreachable")
    /\ UNCHANGED <<scan_id, repo_path, files, total_files, all_chunks, embeddings>>
    /\ UNCHANGED <<fi, context, all_issues, scanned_files>>
    /\ UNCHANGED <<ingestVars, storeVars, encode_calls, scanArgs, llmVars, chunkerVars>>

\* lines 108-121: the file is embedded, its context retrieved and
\* analyze_code called
FileContext ==
    /\ spc = "files"
    /\ fi <= Len(files)
    /\ \E found \in search(points, generate_embedding(files[fi].content), 3,
                           [language |-> files[fi].language]) :
          /\ context' = found
          /\ analyze_code(found)
    /\ encode_calls' = encode_calls \o SingleCall
    /\ spc' = "await"
    /\ UNCHANGED <<scan_id, repo_path, files, total_files, all_chunks, embeddings>>
    /\ UNCHANGED <<fi, all_issues, scanned_files, file_log, points, uuids>>
    /\ UNCHANGED <<result, returns, escaped, cleaned, failed_stage>>
    /\ UNCHANGED <<ingestVars, storeVars, scanArgs, chunkerVars>>

\* SkipFile with the counter of line 128 moved out of the try
SkipFileCounted ==
    /\ fi' = fi + 1
    /\ file_log' = Append(file_log, [path |-> files[fi].path, threw |-> TRUE,
                                     issues |-> <<>>])
    /\ scanned_files' = scanned_files + 1
    /\ UNCHANGED all_issues

\* SkipFile that takes the same file again after the exception
SkipFileRetries ==
    /\ fi' = fi
    /\ file_log' = Append(file_log, [path |-> files[fi].path, threw |-> TRUE,
                                     issues |-> <<>>])
    /\ UNCHANGED <<all_issues, scanned_files>>

\* "except Exception as e" of the file loop, lines 136-142: the file is
\* skipped
SkipFile ==
    /\ fi' = fi + 1
    /\ file_log' = Append(file_log, [path |-> files[fi].path, threw |-> TRUE,
                                     issues |-> <<>>])
    /\ UNCHANGED <<all_issues, scanned_files>>

\* lines 127-128: the file's issues are added and the file counted
KeepFile(issues) ==
    /\ fi' = fi + 1
    /\ file_log' = Append(file_log, [path |-> files[fi].path, threw |-> FALSE,
                                     issues |-> issues])
    /\ all_issues' = all_issues \o issues
    /\ scanned_files' = scanned_files + 1

\* generate_embedding or search raises for the file
FileContextRaises ==
    /\ spc = "files"
    /\ fi <= Len(files)
    /\ SkipFile
    /\ encode_calls' = encode_calls \o SingleCall
    /\ UNCHANGED <<spc, context, uuids>>
    /\ UNCHANGED <<scan_id, repo_path, files, total_files, all_chunks, embeddings, points>>
    /\ UNCHANGED <<result, returns, escaped, cleaned, failed_stage>>
    /\ UNCHANGED <<ingestVars, storeVars, scanArgs, llmVars, chunkerVars>>

\* FileConvert that adds the issues converted before the exception
FileConvertKeepsPartial ==
    /\ spc = "await"
    /\ lpc = "returned"
    /\ LET made == _convert_analysis_to_issues(llm_result, files[fi].path, uuids)
       IN  /\ IF llm_raised THEN SkipFile ELSE KeepFile(made.issues)
           /\ uuids' = IF llm_raised THEN uuids ELSE made.next_id
    /\ spc' = "files"
    /\ context' = <<>>
    /\ lpc' = "idle"
    /\ attempts' = <<>>
    /\ llm_result' = JsonNull
    /\ llm_raised' = FALSE
    /\ context_arg' = <<>>
    /\ prompt' = NoPrompt
    /\ UNCHANGED <<scan_id, repo_path, files, total_files, all_chunks, embeddings, points>>
    /\ UNCHANGED <<result, returns, escaped, cleaned, failed_stage>>
    /\ UNCHANGED <<ingestVars, storeVars, encode_calls, scanArgs, llmSettings, chunkerVars>>

\* lines 124-128: analyze_code has returned (or raised) and its result is
\* converted
FileConvert ==
    /\ spc = "await"
    /\ lpc = "returned"
    /\ LET made == _convert_analysis_to_issues(llm_result, files[fi].path, uuids)
       IN  /\ IF llm_raised \/ made.raised THEN SkipFile ELSE KeepFile(made.issues)
           /\ uuids' = IF llm_raised THEN uuids ELSE made.next_id
    /\ spc' = "files"
    /\ context' = <<>>
    /\ lpc' = "idle"
    /\ attempts' = <<>>
    /\ llm_result' = JsonNull
    /\ llm_raised' = FALSE
    /\ context_arg' = <<>>
    /\ prompt' = NoPrompt
    /\ UNCHANGED <<scan_id, repo_path, files, total_files, all_chunks, embeddings, points>>
    /\ UNCHANGED <<result, returns, escaped, cleaned, failed_stage>>
    /\ UNCHANGED <<ingestVars, storeVars, encode_calls, scanArgs, llmSettings, chunkerVars>>

\* lines 144-173: the summary is computed, the result built, the clone
\* cleaned up and the result returned
Finalize ==
    /\ spc = "files"
    /\ fi > Len(files)
    /\ result' = CompletedResult
    /\ returns' = returns + 1
    /\ cleaned' = IF IsSet(repository_url) THEN Append(cleaned, repo_path) ELSE cleaned
    /\ spc' = "done"
    /\ UNCHANGED <<scan_id, repo_path, files, total_files, all_chunks, embeddings, points,
                   uuids>>
    /\ UNCHANGED <<escaped, failed_stage>>
    /\ LoopUnchanged
    /\ UNCHANGED <<ingestVars, storeVars, encode_calls, scanArgs, llmVars, chunkerVars>>

-----------------------------------------------------------------------------
(* CodeIngestion.cleanup.  A path is a sequence of characters over "/", "t" *)
(* and "x"; the system's temporary directory, tempfile.gettempdir(), is the *)
(* path "/t".                                                              *)

RECURSIVE PathsUpTo(_)
PathsUpTo(n) ==
    IF n = 0 THEN {<<>>}
    ELSE LET shorter == PathsUpTo(n - 1)
         IN  shorter \cup {Append(p, c) : p \in {q \in shorter : Len(q) = n - 1},
                                          c \in {"/", "t", "x"}}

\* tempfile.gettempdir(): an absolute path without a trailing separator
gettempdir == <<"/", "t">>

\* str.startswith
startswith(text, prefix) ==
    /\ Len(text) >= Len(prefix)
    /\ SubSeq(text, 1, Len(prefix)) = prefix

\* the directories cleanup(path) removes when rmtree succeeds: the test of
\* line 209 and the rmtree of line 211
cleanup(path, exists) ==
    IF exists /\ startswith(path, gettempdir) THEN {path} ELSE {}

\* no call of cleanup is modelled on its own
InitIngestIdle ==
    /\ cleanup_dir = <<>>
    /\ dir_exists = FALSE
    /\ removed = {}
    /\ ipc = "idle"

\* lines 207-214: rmtree removes the directory, or raises and the exception
\* is logged
CallCleanup ==
    /\ ipc = "ready"
    /\ \E rmtree_raises \in BOOLEAN :
          removed' = IF rmtree_raises THEN removed
                     ELSE removed \cup cleanup(cleanup_dir, dir_exists)
    /\ ipc' = "done"
    /\ UNCHANGED <<cleanup_dir, dir_exists>>
    /\ UNCHANGED <<chunkerVars, llmVars, scanArgs, scanLocals, points, uuids,
                   encode_calls, storeVars>>

-----------------------------------------------------------------------------
(* The chunker on its own: one call of chunk_file on any bounded input *)

Contents == TextsUpTo(MaxContentLen)

ChunkerLanguages == {"python", "yaml"}

\* metadata=None becomes {}; a caller's metadata may carry any key
ChunkerMetadatas == {<<>>, [chunk_index |-> 7]}

InitChunker ==
    /\ chunk_size \in (-1)..MaxChunkSize
    /\ chunk_overlap \in 0..MaxOverlap
    /\ encoding \in BOOLEAN
    /\ content \in Contents
    /\ language_arg = "unknown"
    /\ chunks = <<>>
    /\ cpc = "ready"

ChunkFile ==
    /\ cpc = "ready"
    /\ \E language \in ChunkerLanguages, metadata \in ChunkerMetadatas :
          /\ language_arg' = language
          /\ chunks' = chunk_file(content, "a.py", language, metadata)
    /\ cpc' = "done"
    /\ UNCHANGED <<chunk_size, chunk_overlap, encoding, content>>
    /\ UNCHANGED <<llmVars, scanVars>>

\* the engine as the scanner's constructor leaves it, before any call
LLMIdle ==
    /\ lpc = "idle"
    /\ attempts = <<>>
    /\ llm_result = JsonNull
    /\ llm_raised = FALSE
    /\ context_arg = <<>>
    /\ prompt = NoPrompt

InitLLMDefault ==
    /\ ollama_client = TRUE
    /\ openai_client = FALSE
    /\ use_openai_fallback = FALSE
    /\ ollama_model = "codellama:34b-instruct"
    /\ ollama_fallback_model = "deepseek-coder:33b"
    /\ LLMIdle

\* no scan is running
InitScanIdle ==
    /\ repository_url = None
    /\ repository_path = None
    /\ file_paths = <<>>
    /\ directory = <<>>
    /\ spc = "idle"
    /\ scan_id = 0
    /\ repo_path = None
    /\ files = <<>>
    /\ total_files = 0
    /\ all_chunks = <<>>
    /\ embeddings = <<>>
    /\ fi = 0
    /\ context = <<>>
    /\ all_issues = <<>>
    /\ scanned_files = 0
    /\ result = [status |-> "none"]
    /\ returns = 0
    /\ escaped = FALSE
    /\ cleaned = <<>>
    /\ points = <<>>
    /\ uuids = 1
    /\ file_log = <<>>
    /\ failed_stage = "none"

\* the embedder unused, the collection bootstrapped, no call on the store
InitStoreReady ==
    /\ encode_calls = <<>>
    /\ collections = {qdrant_collection_name}
    /\ store_pc = [c \in Clients |-> "ready"]
    /\ create_log = <<>>
    /\ store_op = [op |-> "none"]
    /\ store_calls = 0

InitChunkerSpec ==
    InitChunker /\ InitLLMDefault /\ InitScanIdle /\ InitStoreReady /\ InitIngestIdle

SpecChunker == InitChunkerSpec /\ [][ChunkFile]_vars

-----------------------------------------------------------------------------
(* The engine on its own: one call of analyze_code under any settings *)

ModelNames == {"codellama:34b-instruct", "deepseek-coder:33b"}

InitLLM ==
    /\ ollama_client \in BOOLEAN
    /\ openai_client \in BOOLEAN
    /\ use_openai_fallback \in BOOLEAN
    /\ ollama_model = "codellama:34b-instruct"
    /\ ollama_fallback_model \in ModelNames
    /\ LLMIdle

\* the chunker as the constructor leaves it, no call made
InitChunkerDefault ==
    /\ chunk_size = CHUNK_SIZE
    /\ chunk_overlap = CHUNK_OVERLAP
    /\ encoding \in BOOLEAN
    /\ content = <<>>
    /\ language_arg = "unknown"
    /\ chunks = <<>>
    /\ cpc = "idle"

\* the context arguments, lists of search results as scan passes them: no
\* chunk, the first chunks in order, and the chunks in the opposite order,
\* one of them without its keys
ContextLists ==
    LET ContextHit(i) == [score      |-> 1,
                          content    |-> <<"x">>,
                          file_path  |-> "b.py",
                          language   |-> "python",
                          start_line |-> i,
                          end_line   |-> i + 1,
                          metadata   |-> <<>>]
    IN  {[i \in 1..n |-> ContextHit(i)] : n \in 0..MaxContext}
            \cup {[i \in 1..MaxContext |->
                      IF i = 2 THEN [score |-> 1] ELSE ContextHit(MaxContext + 1 - i)]}

CallAnalyzeCode ==
    /\ spc = "idle"
    /\ \E ctxs \in ContextLists : analyze_code(ctxs)
    /\ UNCHANGED <<chunkerVars, scanVars>>
PrimaryReply == OllamaPrimary /\ UNCHANGED <<chunkerVars, scanVars>>
FallbackReply == OllamaFallback /\ UNCHANGED <<chunkerVars, scanVars>>
SecondaryReply == OpenAISecondary /\ UNCHANGED <<chunkerVars, scanVars>>

NextLLM == CallAnalyzeCode \/ PrimaryReply \/ FallbackReply \/ SecondaryReply

InitLLMSpec ==
    InitLLM /\ InitChunkerDefault /\ InitScanIdle /\ InitStoreReady /\ InitIngestIdle

SpecLLM == InitLLMSpec /\ [][NextLLM]_vars

-----------------------------------------------------------------------------
(* The vector store on its own: objects are constructed against one index  *)
(* server and add_chunks / delete_scan_data are called on them             *)

MaxStoreCalls == 2

\* a chunk as chunk_file makes it, and one whose caller-given metadata has a
\* scan_id key
StoreChunk(path, metadata) ==
    [content |-> <<"x">>, file_path |-> path, language |-> "python",
     start_line |-> 1, end_line |-> 1, metadata |-> metadata]

PlainChunk == StoreChunk("a.py", [chunk_index |-> 0])
TaggedChunk == StoreChunk("b.py", [scan_id |-> "s9", chunk_index |-> 0])

StoreChunkLists == {<<>>, <<PlainChunk>>, <<TaggedChunk>>, <<PlainChunk, TaggedChunk>>}
\* lists of vectors, the last with a vector that has not the collection's size
StoreVectorLists ==
    {<<>>, << <<2, 1>> >>, << <<2, 1>>, <<1, 3>> >>, << <<2, 1>>, <<1, 3, 1>> >>}
ScanIds == {"s1", "s2"}

InitStore ==
    /\ encode_calls = <<>>
    /\ collections \in {{}, {qdrant_collection_name}}
    /\ store_pc = [c \in Clients |-> "new"]
    /\ create_log = <<>>
    /\ store_op = [op |-> "none"]
    /\ store_calls = 0

StoreUnchanged ==
    UNCHANGED <<chunkerVars, llmVars, scanArgs, scanLocals, encode_calls, ingestVars>>

Construct ==
    /\ \E c \in Clients : EnsureCheck(c)
    /\ UNCHANGED <<points, uuids, store_op, store_calls>>
    /\ StoreUnchanged

CreateCollection ==
    /\ \E c \in Clients : EnsureCreate(c)
    /\ UNCHANGED <<points, uuids, store_op, store_calls>>
    /\ StoreUnchanged

\* a call of add_chunks on a constructed store
CallAddChunks ==
    /\ store_calls < MaxStoreCalls
    /\ \E c \in Clients, chunk_list \in StoreChunkLists,
          vectors \in StoreVectorLists, sid \in ScanIds :
          /\ store_pc[c] = "ready"
          /\ LET added == add_chunks(points, chunk_list, vectors, sid, uuids)
             IN  /\ points' = added.points
                 /\ uuids' = IF added.raised THEN uuids ELSE uuids + Len(chunk_list)
                 /\ store_op' = [op |-> "add_chunks", chunks |-> chunk_list,
                                 vectors |-> vectors, scan_id |-> sid,
                                 raised |-> added.raised, sent |-> added.sent,
                                 before |-> points]
    /\ store_calls' = store_calls + 1
    /\ UNCHANGED <<collections, store_pc, create_log>>
    /\ StoreUnchanged

\* a call of delete_scan_data on a constructed store
CallDeleteScanData ==
    /\ store_calls < MaxStoreCalls
    /\ \E c \in Clients, sid \in ScanIds :
          /\ store_pc[c] = "ready"
          /\ points' = delete_scan_data(points, sid)
          /\ store_op' = [op |-> "delete_scan_data", chunks |-> <<>>,
                          vectors |-> <<>>, scan_id |-> sid,
                          raised |-> FALSE, before |-> points]
    /\ store_calls' = store_calls + 1
    /\ UNCHANGED <<uuids, collections, store_pc, create_log>>
    /\ StoreUnchanged

\* a call of search on a constructed store; filter_dict <<>> is None or {}
CallSearch ==
    /\ store_calls < MaxStoreCalls
    /\ \E c \in Clients, query \in {<<2, 1>>, <<1, 3>>}, limit \in {1, 2, 10},
          filter_dict \in {<<>>, [scan_id |-> "s1"],
                           [language |-> "python", scan_id |-> "s2"]} :
          /\ store_pc[c] = "ready"
          /\ \E found \in search(points, query, limit, filter_dict) :
                store_op' = [op |-> "search", query |-> query, limit |-> limit,
                             filter_dict |-> filter_dict, raised |-> FALSE,
                             found |-> found]
    /\ store_calls' = store_calls + 1
    /\ UNCHANGED <<points, uuids, collections, store_pc, create_log>>
    /\ StoreUnchanged

NextStore ==
    Construct \/ CreateCollection \/ CallAddChunks \/ CallDeleteScanData \/ CallSearch

InitStoreSpec ==
    InitStore /\ InitChunkerDefault /\ InitLLMDefault /\ InitScanIdle /\ InitIngestIdle

SpecStore == InitStoreSpec /\ [][NextStore]_vars

-----------------------------------------------------------------------------
(* CodeIngestion.cleanup on its own: one call on any bounded path *)

\* cleanup is about to be called on any path, existing or not
InitCleanup ==
    /\ cleanup_dir \in PathsUpTo(MaxPathLen)
    /\ dir_exists \in BOOLEAN
    /\ removed = {}
    /\ ipc = "ready"
    /\ InitChunkerDefault /\ InitLLMDefault /\ InitScanIdle /\ InitStoreReady

SpecCleanup == InitCleanup /\ [][CallCleanup]_vars

-----------------------------------------------------------------------------
(* One call of CodeScanner.scan *)

FilePaths == <<"a.py", "b.py", "c.yml", "d.go", "e.py">>
FileLanguages == <<"python", "python", "yaml", "go", "python">>
FileContents == << <<"x", "x", NL, "x">>, <<"x">>, <<>>, <<NL>>, <<"x", NL>> >>

\* the dictionary scan_directory builds for a file
FileRecord(i) ==
    [path     |-> FilePaths[i],
     content  |-> FileContents[i],
     language |-> FileLanguages[i],
     size     |-> Len(FileContents[i]),
     lines    |-> Count(FileContents[i], NL) + 1]

Directories == {[i \in 1..n |-> FileRecord(i)] : n \in 0..MaxFiles}

InitScan ==
    /\ repository_url \in {None, "https://github.com/o/r"}
    /\ repository_path \in {None, "/srv/repo"}
    /\ file_paths \in {<<>>, <<"c.yml", "zz.py">>}
    /\ directory \in Directories
    /\ spc = "call"
    /\ scan_id = 0
    /\ repo_path = None
    /\ files = <<>>
    /\ total_files = 0
    /\ all_chunks = <<>>
    /\ embeddings = <<>>
    /\ fi = 0
    /\ context = <<>>
    /\ all_issues = <<>>
    /\ scanned_files = 0
    /\ result = [status |-> "none"]
    /\ returns = 0
    /\ escaped = FALSE
    /\ cleaned = <<>>
    /\ file_log = <<>>
    /\ failed_stage = "none"

\* the scan identifier of a scan that ran earlier on the same index
EarlierScanId == 1

\* the points an earlier scan of the file a.py left in the collection
EarlierPoints ==
    LET earlier == ChunkAll(<<FileRecord(1)>>, 1)
    IN  add_chunks(<<>>, earlier,
                   generate_embeddings([i \in DOMAIN earlier |-> earlier[i].content]),
                   EarlierScanId, EarlierScanId + 1).points

\* the shared collection when scan is called: empty, or holding the points
\* of the earlier scan (delete_scan_data is never called by scan)
InitIndex ==
    /\ points \in {<<>>, EarlierPoints}
    /\ uuids = IF points = <<>> THEN 1 ELSE EarlierScanId + 1 + Len(points)

\* the engine of the scanner: the settings of config.py, with or without
\* the OpenAI fallback
InitScanLLM ==
    /\ ollama_client = TRUE
    /\ openai_client \in BOOLEAN
    /\ use_openai_fallback = openai_client
    /\ ollama_model = "codellama:34b-instruct"
    /\ ollama_fallback_model = "deepseek-coder:33b"
    /\ LLMIdle

Init ==
    /\ InitChunkerDefault /\ InitScanLLM /\ InitScan /\ InitIndex /\ InitStoreReady
    /\ InitIngestIdle

Next ==
    \/ ScanBegin
    \/ ResolveSource
    \/ CloneReturns
    \/ CloneRaises
    \/ ScanDirectoryReturns
    \/ ScanDirectoryRaises
    \/ ChunkFiles
    \/ ChunkFilesRaises
    \/ EmbedChunks
    \/ EmbedChunksRaises
    \/ AddChunks
    \/ AddChunksRaises
    \/ FileContext
    \/ FileContextRaises
    \/ PrimaryReply
    \/ FallbackReply
    \/ SecondaryReply
    \/ FileConvert
    \/ Finalize

Spec == Init /\ [][Next]_vars

\* scan when every call it awaits comes back: a coroutine that can take its
\* next step takes it
\* the scans of a repository_url or of no source at all, of a listing of no
\* file, one file or two files, with the secondary provider configured
InitFair ==
    /\ Init
    /\ repository_path = None
    /\ file_paths = <<>>
    /\ directory \in {<<>>, <<FileRecord(1)>>, <<FileRecord(1), FileRecord(2)>>}
    /\ points = <<>>
    /\ openai_client
    /\ encoding

SpecFair == InitFair /\ [][Next]_vars /\ WF_vars(Next)

-----------------------------------------------------------------------------
(* The claims *)

RECURSIVE SumValues(_)
SumValues(d) ==
    IF DOMAIN d = {} THEN 0
    ELSE LET k == CHOOSE x \in DOMAIN d : TRUE
         IN  d[k] + SumValues([x \in (DOMAIN d) \ {k} |-> d[x]])

\* the issues of the files of the log that did not throw, in order
RECURSIVE KeptIssues(_)
KeptIssues(log) ==
    IF log = <<>> THEN <<>>
    ELSE (IF Head(log).threw THEN <<>> ELSE Head(log).issues) \o KeptIssues(Tail(log))

Failed(attempt) == attempt.outcome # "ok"

\* C1: scan never lets an exception escape; once it has ended it has
\* returned exactly one ScanResult, whose status is completed or failed,
\* and it returns nothing before it ends.
C1_ScanReturnsOneResult ==
    /\ ~escaped
    /\ spc = "done" => returns = 1 /\ result.status \in {"completed", "failed"}
    /\ spc # "done" => returns = 0 /\ result.status = "none"

\* a scan whose upsert raised, after three files were listed, has ended
C1_Witness ==
    /\ spc = "done"
    /\ failed_stage = "upsert"
    /\ Len(files) = 3
    /\ result.status = "failed"

\* C2: a scan whose steps 1-3 succeeded ends completed; scanned_files is the
\* number of files whose work did not throw and the issues are exactly the
\* issues of those files, in file order.
C2_FailedFilesAreSkipped ==
    (spc = "done" /\ failed_stage = "none") =>
        /\ result.status = "completed"
        /\ Len(file_log) = Len(files)
        /\ \A i \in DOMAIN file_log : file_log[i].path = files[i].path
        /\ result.scanned_files = Cardinality({i \in DOMAIN file_log : ~file_log[i].threw})
        /\ result.issues = KeptIssues(file_log)
        /\ \A i \in DOMAIN file_log : file_log[i].threw =>
              \A k \in DOMAIN result.issues :
                  result.issues[k].location.file_path # file_log[i].path

\* three files, the second threw, the first and the third have issues
C2_Witness ==
    /\ spc = "done"
    /\ result.status = "completed"
    /\ Len(file_log) = 3
    /\ ~file_log[1].threw /\ file_log[2].threw /\ ~file_log[3].threw
    /\ file_log[1].issues # <<>> /\ file_log[3].issues # <<>>
    /\ result.scanned_files = 2

C4_CandidatesInOrderAfterFailures ==
    ollama_client =>
        \A i \in DOMAIN attempts :
            /\ attempts[i].candidate = "primary" => i = 1
            /\ attempts[i].candidate = "fallback" =>
                  i = 2 /\ attempts[1].candidate = "primary" /\ Failed(attempts[1])
            /\ attempts[i].candidate = "secondary" =>
                  /\ i > 1
                  /\ attempts[1].candidate = "primary" /\ Failed(attempts[1])
                  /\ ollama_fallback_model # ollama_model =>
                        i = 3 /\ attempts[2].candidate = "fallback" /\ Failed(attempts[2])

\* C5: once an attempt's response parsed as JSON no later candidate is
\* attempted, and analyze_code returns that attempt's parsed value.
C5_StopsAtFirstParsedResponse ==
    \A i \in DOMAIN attempts :
        attempts[i].outcome = "ok" =>
            /\ i = Len(attempts)
            /\ lpc = "returned"
            /\ llm_result = attempts[i].value

\* C6: when analyze_code has returned and every attempt it made failed (by
\* transport or by parsing), its result is the exhausted result with three
\* empty collections; analyze_code never raises.
C6_AllFailedGivesExhaustedResult ==
    /\ ~llm_raised
    /\ (lpc = "returned" /\ \A i \in DOMAIN attempts : Failed(attempts[i])) =>
          /\ llm_result = ExhaustedResult
          /\ llm_result.members.vulnerabilities = <<>>
          /\ llm_result.members.code_review = <<>>
          /\ llm_result.members.auto_comments = <<>>

\* primary, fallback and secondary were attempted, failing both ways
C6_Witness ==
    /\ lpc = "returned"
    /\ Len(attempts) = 3
    /\ attempts[1].outcome = "parse"
    /\ attempts[2].outcome = "transport"
    /\ attempts[3].outcome = "parse"
    /\ llm_result = ExhaustedResult

\* C7: when every attempt on the primary provider failed and the secondary
\* provider's response parsed, analyze_code returns the value parsed from
\* that response; it differs from the exhausted result when it holds an item.
C7_SecondaryResultIsReturned ==
    (/\ lpc = "returned"
     /\ attempts # <<>>
     /\ attempts[Len(attempts)].candidate = "secondary"
     /\ attempts[Len(attempts)].outcome = "ok"
     /\ \A i \in 1..(Len(attempts) - 1) : Failed(attempts[i])) =>
        LET value == attempts[Len(attempts)].value
        IN  /\ llm_result = value
            /\ (\E key \in DOMAIN value.members : value.members[key] # <<>>) =>
                  llm_result # ExhaustedResult

\* both primary attempts failed and the secondary answered one vulnerability
C7_Witness ==
    /\ lpc = "returned"
    /\ Len(attempts) = 3
    /\ Failed(attempts[1]) /\ Failed(attempts[2])
    /\ attempts[3].candidate = "secondary"
    /\ llm_result = JsonObject(OneVuln)

\* the number of lines of the content: its separators plus one
LineCount == Count(content, NL) + 1

\* C8: the chunks of a content of N >= 1 lines cover the lines 1..N: the
\* first starts at line 1, each later one starts at most one line after the
\* end of the one before, the last ends at line N, every line lies in some
\* chunk, and the chunk_index values are 0, 1, 2, ... in order.
C8_ChunksCoverAllLines ==
    cpc = "done" =>
        /\ chunks # <<>>
        /\ chunks[1].start_line = 1
        /\ \A k \in 2..Len(chunks) : chunks[k].start_line <= chunks[k - 1].end_line + 1
        /\ chunks[Len(chunks)].end_line = LineCount
        /\ \A line \in 1..LineCount :
              \E k \in DOMAIN chunks :
                  chunks[k].start_line <= line /\ line <= chunks[k].end_line
        /\ \A k \in DOMAIN chunks : chunks[k].metadata.chunk_index = k - 1

\* three chunks or more, the second one starting inside the first
C8_Witness ==
    /\ cpc = "done"
    /\ Len(chunks) >= 3
    /\ chunks[2].start_line <= chunks[1].end_line
    /\ LineCount >= 4

\* C9: chunk_file returns no chunk for the empty content.
C9_EmptyContentGivesNoChunk ==
    (cpc = "done" /\ content = <<>>) => chunks = <<>>

\* C10: in a completed result the by_severity counts sum to the number of
\* issues, so do the by_type counts, and total_issues is that number.
C10_SummaryCountsMatchIssues ==
    (spc = "done" /\ result.status = "completed") =>
        /\ SumValues(result.summary.by_severity) = Len(result.issues)
        /\ SumValues(result.summary.by_type) = Len(result.issues)
        /\ result.summary.total_issues = Len(result.issues)

\* a completed result with two issues of severity high among four or more
C10_Witness ==
    /\ spc = "done"
    /\ result.status = "completed"
    /\ Len(result.issues) >= 4
    /\ result.summary.by_severity.high = 2
    /\ result.summary.by_type.auto_comment >= 1

\* C11: a call of add_chunks with a different number of chunks and vectors
\* raises and leaves the points of the collection as they were.
C11_MismatchWritesNothing ==
    (store_op.op = "add_chunks" /\ Len(store_op.chunks) # Len(store_op.vectors)) =>
        /\ store_op.raised
        /\ points = store_op.before

\* two chunks and one vector were given to a collection that held points
C11_Witness ==
    /\ store_op.op = "add_chunks"
    /\ Len(store_op.chunks) = 2 /\ Len(store_op.vectors) = 1
    /\ store_op.raised
    /\ store_op.before # <<>>

\* C12: after add_chunks with N chunks and N vectors the collection holds N
\* new points behind the old ones, the i-th made of the i-th chunk and
\* vector, and each new point carries the scan_id argument as its payload
\* scan_id, so that a filter on that scan_id selects it.
C12_NewPointsCarryScanId ==
    (store_op.op = "add_chunks" /\ Len(store_op.chunks) = Len(store_op.vectors)) =>
        LET old == Len(store_op.before)
            n   == Len(store_op.chunks)
        IN  /\ ~store_op.raised
            /\ Len(points) = old + n
            /\ SubSeq(points, 1, old) = store_op.before
            /\ \A i \in 1..n :
                  /\ points[old + i].vector = store_op.vectors[i]
                  /\ points[old + i].payload.content = store_op.chunks[i].content
                  /\ points[old + i].payload.scan_id = store_op.scan_id
                  /\ Matches(points[old + i], [scan_id |-> store_op.scan_id])

\* C13: delete_scan_data(scan_id) does not fail and leaves exactly the
\* points whose payload scan_id differs from the argument, unchanged and in
\* their order; with no point of that scan_id the collection is unchanged.
C13_DeleteRemovesExactlyTheScan ==
    store_op.op = "delete_scan_data" =>
        LET kept == {i \in DOMAIN store_op.before :
                        store_op.before[i].payload.scan_id # store_op.scan_id}
        IN  /\ ~store_op.raised
            /\ Len(points) = Cardinality(kept)
            /\ \A i \in kept : \E k \in DOMAIN points : points[k] = store_op.before[i]
            /\ \A k \in DOMAIN points :
                  \E i \in kept : points[k] = store_op.before[i]
            /\ \A k, m \in DOMAIN points : k < m => points[k].id < points[m].id
            /\ kept = DOMAIN store_op.before => points = store_op.before

\* of two points of different scans the delete removed one and left the other
C13_Witness ==
    /\ store_op.op = "delete_scan_data"
    /\ Len(store_op.before) = 2
    /\ Len(points) = 1
    /\ points[1].payload.scan_id # store_op.scan_id

\* C14: the context chunks retrieved for a file of a scan, which are passed
\* to analyze_code, all carry the scan's own scan_id.
C14_ContextComesFromOwnScan ==
    spc = "await" =>
        \A k \in DOMAIN context : context[k].metadata.scan_id = scan_id

\* C15: a create request is never sent for a collection that exists, and
\* no more than one create request is sent for the collection.
C15_CollectionCreatedOnce ==
    /\ \A i \in DOMAIN create_log : ~create_log[i].existed
    /\ Len(create_log) <= 1

\* C16: every value analyze_code returns is an object whose keys are
\* exactly vulnerabilities, code_review and auto_comments.
C16_ResultHasThreeCollections ==
    (lpc = "returned" /\ ~llm_raised) =>
        /\ llm_result.kind = "object"
        /\ DOMAIN llm_result.members = {"vulnerabilities", "code_review", "auto_comments"}

\* scan was called with a local path only and its directory holds a file;
\* scan_id is 0 until scan has drawn its uuid
LocalScanOfFiles ==
    /\ ~IsSet(repository_url)
    /\ IsSet(repository_path)
    /\ directory # <<>>

ContentLines == Split(content)

Oversized(line) == _count_tokens(line) > chunk_size

\* C18: every line whose own token count exceeds chunk_size is the one
\* line of some chunk.
C18_OversizedLineIsItsOwnChunk ==
    cpc = "done" =>
        \A i \in DOMAIN ContentLines :
            Oversized(ContentLines[i]) =>
                \E k \in DOMAIN chunks :
                    /\ chunks[k].start_line = i
                    /\ chunks[k].end_line = i
                    /\ chunks[k].content = ContentLines[i]

\* C19: the token counts of the lines of a chunk sum to chunk_size at most,
\* unless one of its lines alone exceeds chunk_size.
C19_ChunksAreBounded ==
    cpc = "done" =>
        \A k \in DOMAIN chunks :
            LET chunk_lines == Split(chunks[k].content)
            IN  \/ SumTokens(chunk_lines) <= chunk_size
                \/ \E j \in DOMAIN chunk_lines : Oversized(chunk_lines[j])

\* scan has passed the call of generate_embeddings without an exception
AfterEmbed ==
    \/ spc \in {"upsert", "files", "await"}
    \/ spc = "done" /\ failed_stage \in {"upsert", "none"}

\* C20: generate_embeddings of no texts returns no vector and calls the
\* model for no batch: every batch call of the model has texts, and a scan
\* without chunks has made no batch call.
C20_EmptyBatchMakesNoModelCall ==
    /\ \A i \in DOMAIN encode_calls :
          encode_calls[i].kind = "batch" =>
              encode_calls[i].count >= 1 /\ all_chunks # <<>>
    /\ (AfterEmbed /\ all_chunks = <<>>) => embeddings = <<>>

\* a scan whose allow-list left no file of two ended completed, no model call
C20_Witness ==
    /\ spc = "done"
    /\ result.status = "completed"
    /\ Len(directory) = 2
    /\ all_chunks = <<>>
    /\ encode_calls = <<>>

\* C21: the batch embedding of the chunk texts holds one vector per text, the
\* i-th being the vector of the i-th text, and it is the vector
\* generate_embedding gives for that text alone.
C21_OneVectorPerTextInOrder ==
    (AfterEmbed /\ all_chunks # <<>>) =>
        /\ Len(embeddings) = Len(all_chunks)
        /\ \A i \in DOMAIN all_chunks :
              /\ embeddings[i] = ModelEncode(all_chunks[i].content)
              /\ embeddings[i] = generate_embedding(all_chunks[i].content)
              /\ generate_embedding(all_chunks[i].content)
                    = generate_embeddings(<<all_chunks[i].content>>)[1]

\* three texts were embedded and the first two have different vectors
C21_Witness ==
    /\ AfterEmbed
    /\ Len(all_chunks) = 3
    /\ Len(embeddings) = 3
    /\ embeddings[1] # embeddings[2]

\* C22: a call of add_chunks with a vector whose size is not the collection's
\* is rejected before the upsert request is issued, and writes no point.
C22_MismatchedVectorNeverSent ==
    (/\ store_op.op = "add_chunks"
     /\ \E i \in DOMAIN store_op.vectors : Len(store_op.vectors[i]) # VECTOR_SIZE) =>
        /\ store_op.raised
        /\ ~store_op.sent
        /\ points = store_op.before

\* C24: the points of the collection have pairwise distinct identifiers, and
\* an add_chunks call of N pairs puts N points behind the points that were
\* there, which stay as they were, also when the same chunks are submitted
\* again.
C24_PointIdsAreFresh ==
    /\ \A k, m \in DOMAIN points : k # m => points[k].id # points[m].id
    /\ (store_op.op = "add_chunks" /\ ~store_op.raised) =>
          /\ Len(points) = Len(store_op.before) + Len(store_op.chunks)
          /\ SubSeq(points, 1, Len(store_op.before)) = store_op.before

\* the same two chunks were submitted twice under the same scan_id
C24_Witness ==
    /\ store_op.op = "add_chunks"
    /\ Len(store_op.chunks) = 2
    /\ Len(points) = 4
    /\ points[1].payload = points[3].payload /\ points[1].vector = points[3].vector
    /\ points[2].payload = points[4].payload /\ points[2].vector = points[4].vector

\* C25: what search returns has at most limit entries, each made of a stored
\* point whose payload has the filter's value for every key of the filter
\* and scored by its similarity to the query, in descending order of score.
C25_SearchReturnsBestMatches ==
    store_op.op = "search" =>
        /\ Len(store_op.found) <= store_op.limit
        /\ \A k \in DOMAIN store_op.found :
              \E i \in DOMAIN points :
                  /\ \A key \in DOMAIN store_op.filter_dict :
                        /\ key \in DOMAIN points[i].payload
                        /\ points[i].payload[key] = store_op.filter_dict[key]
                  /\ store_op.found[k].content = points[i].payload.content
                  /\ store_op.found[k].file_path = points[i].payload.file_path
                  /\ store_op.found[k].metadata.scan_id = points[i].payload.scan_id
                  /\ store_op.found[k].score = Score(store_op.query, points[i].vector)
        /\ \A k, m \in DOMAIN store_op.found :
              k < m => store_op.found[k].score >= store_op.found[m].score

\* a filtered search left out one of two points, whose score was the higher
C25_Witness ==
    /\ store_op.op = "search"
    /\ store_op.filter_dict = [scan_id |-> "s1"]
    /\ Len(points) = 2
    /\ Len(store_op.found) = 1
    /\ store_op.found[1].file_path = "a.py"
    /\ Score(store_op.query, points[2].vector) > store_op.found[1].score

\* the lines of the content that chunk k spans
ChunkLines(k) == SubSeq(ContentLines, chunks[k].start_line, chunks[k].end_line)

\* the last q lines of a list of lines
Suffix(lines, q) == SubSeq(lines, Len(lines) - q + 1, Len(lines))

\* C26: a chunk that follows a chunk closed at trigger line i starts p lines
\* before i and begins with the last p lines of the closed chunk followed by
\* line i, where p is the greatest number of trailing lines of the closed
\* chunk whose token counts sum to chunk_overlap at most.
C26_OverlapIsLongestFittingSuffix ==
    cpc = "done" =>
        \A k \in 2..Len(chunks) :
            LET closed == ChunkLines(k - 1)
                i == chunks[k - 1].end_line + 1
                p == i - chunks[k].start_line
            IN  /\ p \in 0..Len(closed)
                /\ SumTokens(Suffix(closed, p)) <= chunk_overlap
                /\ \A q \in (p + 1)..Len(closed) :
                      SumTokens(Suffix(closed, q)) > chunk_overlap
                /\ chunks[k].end_line >= i
                /\ chunks[k - 1].content = Join(closed)
                /\ SubSeq(Split(chunks[k].content), 1, p + 1)
                      = Suffix(closed, p) \o <<ContentLines[i]>>

\* a chunk of three lines was closed and its last two lines are the overlap
C26_Witness ==
    /\ cpc = "done"
    /\ Len(chunks) >= 2
    /\ chunks[1].end_line = 3
    /\ chunks[2].start_line = 2
    /\ chunk_overlap >= 1
    /\ _count_tokens(ContentLines[3]) >= 1

\* the attempts made on the primary provider
OllamaAttempts == {i \in DOMAIN attempts : attempts[i].candidate \in {"primary", "fallback"}}

\* C27: the fallback model is attempted only when its name differs from the
\* primary model's; when the names are equal, an analyze_code call that has
\* returned after a failed primary attempt called the primary provider once.
C27_SameModelIsNotRetried ==
    /\ \A i \in DOMAIN attempts :
          attempts[i].candidate = "fallback" =>
              /\ ollama_fallback_model # ollama_model
              /\ attempts[i].model = ollama_fallback_model
              /\ attempts[i].model # attempts[1].model
    /\ (/\ ollama_fallback_model = ollama_model
        /\ lpc = "returned"
        /\ attempts # <<>>
        /\ attempts[1].candidate = "primary" /\ Failed(attempts[1])) =>
          OllamaAttempts = {1}

\* with equal model names the primary attempt failed and the secondary
\* provider was attempted next
C27_Witness ==
    /\ ollama_fallback_model = ollama_model
    /\ lpc = "returned"
    /\ Len(attempts) = 2
    /\ attempts[1].candidate = "primary" /\ Failed(attempts[1])
    /\ attempts[2].candidate = "secondary"

SecondaryUsable == openai_client /\ use_openai_fallback

\* C28: the secondary provider is attempted (or awaited) only with a client
\* and use_openai_fallback both; with either missing, an analyze_code call
\* whose attempts on the primary provider all failed has made no other
\* attempt and returns the exhausted result.
C28_SecondaryNeedsClientAndSetting ==
    /\ lpc = "secondary" => SecondaryUsable
    /\ \A i \in DOMAIN attempts : attempts[i].candidate = "secondary" => SecondaryUsable
    /\ (/\ ~SecondaryUsable
        /\ lpc = "returned"
        /\ \A i \in DOMAIN attempts : Failed(attempts[i])) =>
          /\ OllamaAttempts = DOMAIN attempts
          /\ llm_result = ExhaustedResult

\* a client exists but the fallback is disabled: both models failed and the
\* exhausted result was returned
C28_Witness ==
    /\ openai_client /\ ~use_openai_fallback
    /\ lpc = "returned"
    /\ Len(attempts) = 2
    /\ Failed(attempts[1]) /\ Failed(attempts[2])
    /\ llm_result = ExhaustedResult

\* what follows attempt i in the fallback chain when it has failed
FollowsFailure(i) ==
    LET last == i = Len(attempts)
        then(candidate) == IF last THEN lpc = candidate
                           ELSE attempts[i + 1].candidate = candidate
        exhausted == last /\ lpc = "returned" /\ llm_result = ExhaustedResult
        secondary == IF SecondaryUsable THEN then("secondary") ELSE exhausted
    IN  CASE attempts[i].candidate = "primary" ->
                 IF ollama_fallback_model # ollama_model THEN then("fallback")
                 ELSE secondary
          [] attempts[i].candidate = "fallback" -> secondary
          [] OTHER -> exhausted

\* C29: an attempt whose response did not parse is followed by what follows
\* an attempt whose call failed: the next candidate of the chain, or the
\* exhausted result after the last one; no exception leaves analyze_code.
C29_ParseFailureAdvancesTheChain ==
    /\ ~llm_raised
    /\ \A i \in DOMAIN attempts :
          attempts[i].outcome \in {"parse", "transport"} => FollowsFailure(i)

\* the responses of the primary model, the fallback model and the secondary
\* provider all failed to parse
C29_Witness ==
    /\ lpc = "returned"
    /\ Len(attempts) = 3
    /\ \A i \in 1..3 : attempts[i].outcome = "parse"
    /\ llm_result = ExhaustedResult

\* the step in which the analysis of the file at hand is converted and kept
FileKept == spc = "await" /\ spc' = "files" /\ scanned_files' = scanned_files + 1

\* the items of the analysis at hand, list after list, with their list's key
AnalysisItems ==
    LET m == llm_result.members
        tag(key) == LET items == Get(m, key, <<>>)
                    IN  [k \in DOMAIN items |-> [key |-> key, item |-> items[k]]]
    IN  tag("vulnerabilities") \o tag("code_review") \o tag("auto_comments")

\* the issues the step adds to all_issues
NewIssues == SubSeq(all_issues', Len(all_issues) + 1, Len(all_issues'))

KindOf(key) ==
    CASE key = "vulnerabilities" -> "vulnerability"
      [] key = "code_review"     -> "code_review"
      [] key = "auto_comments"   -> "auto_comment"

C30_ConversionDefaults ==
    [][FileKept =>
        \A k \in DOMAIN AnalysisItems :
            LET key   == AnalysisItems[k].key
                item  == AnalysisItems[k].item
                issue == NewIssues[k]
                first == IF key = "auto_comments" THEN "line" ELSE "start_line"
            IN  /\ (key = "vulnerabilities" /\ "severity" \notin DOMAIN item) =>
                      issue.severity = "medium"
                /\ (key = "code_review" /\ "severity" \notin DOMAIN item) =>
                      issue.severity = "info"
                /\ key = "auto_comments" => issue.severity = "info"
                /\ issue.location.start_line
                      = (IF first \in DOMAIN item THEN item[first] ELSE 1)
                /\ (key = "auto_comments" \/ "end_line" \notin DOMAIN item) =>
                      issue.location.end_line = issue.location.start_line
                /\ (key # "auto_comments" /\ "end_line" \in DOMAIN item) =>
                      issue.location.end_line = item.end_line]_vars

\* issues of a vulnerability without severity and end line, of an empty
\* review finding and of an auto-comment that carried a severity
C30_Witness ==
    /\ spc = "done"
    /\ result.status = "completed"
    /\ \E a, b, c \in DOMAIN result.issues :
          /\ result.issues[a].type = "vulnerability"
          /\ result.issues[a].severity = "medium"
          /\ result.issues[a].location.start_line = 2
          /\ result.issues[a].location.end_line = 2
          /\ result.issues[b].type = "code_review"
          /\ result.issues[b].severity = "info"
          /\ result.issues[b].location.end_line = 1
          /\ result.issues[c].type = "auto_comment"
          /\ result.issues[c].location.start_line = 3

\* the points whose id was drawn after the scan's own identifier
OwnPoints ==
    IF scan_id = 0 THEN <<>>
    ELSE SelectSeq(points, LAMBDA point : point.id > scan_id)

\* the upsert of the scan has returned
AfterUpsert == spc \in {"files", "await"} \/ (spc = "done" /\ failed_stage = "none")

\* the calls of the embedding model of the given kind
CallsOfKind(kind) == {i \in DOMAIN encode_calls : encode_calls[i].kind = kind}

\* C31: the stages of a scan run in order.  The model is called for at most
\* one batch, which holds the texts of all chunks of all files and precedes
\* every call for a single file; the points of the scan are written at
\* once, one per chunk and tagged with the scan's identifier; a file is
\* embedded or analyzed only once the upsert has returned; and the files
\* are taken one at a time in the order of the listing.
C31_StagesRunInOrder ==
    /\ Cardinality(CallsOfKind("batch")) <= 1
    /\ \A i \in CallsOfKind("batch") :
          /\ i = 1
          /\ encode_calls[i].count = Len(all_chunks)
          /\ \A f \in DOMAIN files :
                \E k \in DOMAIN all_chunks : all_chunks[k].file_path = files[f].path
    /\ OwnPoints # <<>> => AfterUpsert \/ (spc = "done" /\ failed_stage = "none")
    /\ AfterUpsert =>
          /\ Len(OwnPoints) = Len(all_chunks)
          /\ \A k \in DOMAIN OwnPoints :
                /\ OwnPoints[k].payload.scan_id = scan_id
                /\ OwnPoints[k].payload.content = all_chunks[k].content
                /\ OwnPoints[k].vector = embeddings[k]
    /\ (CallsOfKind("single") # {} \/ file_log # <<>> \/ lpc # "idle") => AfterUpsert
    /\ lpc # "idle" => spc = "await"
    /\ AfterUpsert =>
          /\ Cardinality(CallsOfKind("single"))
                = Len(file_log) + (IF spc = "await" THEN 1 ELSE 0)
          /\ Len(file_log) = (IF spc = "done" THEN Len(files) ELSE fi - 1)
          /\ \A i \in DOMAIN file_log : file_log[i].path = files[i].path

\* the second of three files is being analyzed, after one batch of three
\* texts and the upsert of three points
C31_Witness ==
    /\ spc = "await"
    /\ fi = 2
    /\ Len(files) = 3
    /\ Len(file_log) = 1
    /\ encode_calls[1] = [kind |-> "batch", count |-> 3]
    /\ Len(OwnPoints) = 3

\* C32: cleanup is called only when a scan that was given a repository_url
\* completes, and then exactly once, on the clone; it is not called before
\* the result is built, for a failed scan, or for a scan of a local path.
C32_CleanupOnlyAfterCompletedClone ==
    /\ spc # "done" => cleaned = <<>>
    /\ spc = "done" =>
          cleaned = IF result.status = "completed" /\ IsSet(repository_url)
                    THEN <<repo_path>>
                    ELSE <<>>
    /\ cleaned # <<>> => repo_path = "/tmp/codeguard_clone"

\* a scan of a repository_url has completed and its clone was cleaned up
C32_Witness ==
    /\ spc = "done"
    /\ result.status = "completed"
    /\ IsSet(repository_url)
    /\ scanned_files >= 1
    /\ cleaned = <<"/tmp/codeguard_clone">>

\* the path lies under the temporary directory (or is that directory)
UnderTempDir(path) ==
    \/ path = gettempdir
    \/ startswith(path, Append(gettempdir, "/"))

\* C33 (the part about cleanup itself): once cleanup has returned, every
\* directory it removed lies under the system's temporary directory.
C33_CleanupRemovesOnlyUnderTempDir ==
    ipc = "done" => \A path \in removed : UnderTempDir(path)

\* C33 (the part about scan): a scan that was given only a repository_path
\* never calls cleanup.
C33_LocalScanNeverCallsCleanup ==
    (spc # "call" /\ IsSet(repository_path) /\ ~IsSet(repository_url)) => cleaned = <<>>

\* what the conversion of the awaited file's analysis result gives
Converted == _convert_analysis_to_issues(llm_result, files[fi].path, uuids)

\* analyze_code has returned for the file and the conversion of its result
\* raises
ConversionFails ==
    /\ spc = "await"
    /\ lpc = "returned"
    /\ ~llm_raised
    /\ Converted.raised

\* C34: when the conversion of a file's analysis result raises, the step
\* leaves the collected issues and scanned_files as they were and moves on to
\* the next file, and no issue of a file whose work raised is in the result.
C34_FindingsAllOrNothing ==
    /\ [][ConversionFails =>
             /\ all_issues' = all_issues
             /\ scanned_files' = scanned_files
             /\ fi' = fi + 1
             /\ file_log' = Append(file_log, [path |-> files[fi].path, threw |-> TRUE,
                                              issues |-> <<>>])]_vars
    /\ [](spc = "done" /\ result.status = "completed" =>
             /\ result.issues = all_issues
             /\ \A i \in DOMAIN file_log : file_log[i].threw =>
                   \A k \in DOMAIN result.issues :
                       result.issues[k].location.file_path # file_log[i].path)

\* the conversion raises at the second item of the second file, after the
\* first item was converted and the first file's issues were collected
C34_Witness ==
    /\ ConversionFails
    /\ fi = 2
    /\ Converted.issues # <<>>
    /\ all_issues # <<>>
    /\ scanned_files = 1

\* the files of the listing the allow-list admits; an empty allow-list admits
\* every file
Admitted ==
    {i \in DOMAIN directory :
        file_paths = <<>> \/ \E k \in DOMAIN file_paths : file_paths[k] = directory[i].path}

\* C35: in the returned result scanned_files lies between 0 and total_files;
\* in a completed result total_files is the number of listed files the
\* allow-list admits, and the file of every issue is one of them.
C35_CountsWithinFilteredFiles ==
    spc = "done" =>
        /\ 0 <= result.scanned_files
        /\ result.scanned_files <= result.total_files
        /\ result.status = "completed" =>
              /\ result.total_files = Cardinality(Admitted)
              /\ \A k \in DOMAIN result.issues :
                    \E i \in Admitted :
                        result.issues[k].location.file_path = directory[i].path

\* a completed scan of a listing of three files of which the allow-list
\* admits one, with an issue found in it
C35_Witness ==
    /\ spc = "done"
    /\ result.status = "completed"
    /\ file_paths # <<>>
    /\ Len(directory) = 3
    /\ result.total_files = 1
    /\ result.scanned_files = 1
    /\ result.issues # <<>>

\* what the two variants are compared on
Boundaries(cs) ==
    [k \in DOMAIN cs |-> [start_line  |-> cs[k].start_line,
                          end_line    |-> cs[k].end_line,
                          content     |-> cs[k].content,
                          chunk_index |-> cs[k].metadata.chunk_index]]

C37_ChunkMatchesItsLineRange ==
    cpc = "done" =>
        /\ chunks # <<>>
        /\ \A k \in DOMAIN chunks :
              /\ 1 <= chunks[k].start_line
              /\ chunks[k].start_line <= chunks[k].end_line
              /\ chunks[k].end_line <= Len(ContentLines)
              /\ chunks[k].content
                    = Join(SubSeq(ContentLines, chunks[k].start_line, chunks[k].end_line))
              /\ Count(chunks[k].content, NL) + 1
                    = chunks[k].end_line - chunks[k].start_line + 1
              /\ chunks[k].file_path = "a.py"
              /\ chunks[k].language = language_arg

\* a yaml content of three lines or more was split, the second chunk holding
\* two lines
C37_Witness ==
    /\ cpc = "done"
    /\ language_arg = "yaml"
    /\ Len(chunks) >= 2
    /\ chunks[2].end_line = chunks[2].start_line + 1
    /\ chunks[2].content # <<NL>>

\* C38: in the order of the chunks, end_line is strictly increasing and
\* start_line never decreases, and there are no more chunks than lines.
C38_EverySplitMakesProgress ==
    cpc = "done" =>
        /\ \A k \in 2..Len(chunks) :
              /\ chunks[k].end_line > chunks[k - 1].end_line
              /\ chunks[k].start_line >= chunks[k - 1].start_line
        /\ Len(chunks) <= Len(ContentLines)

\* as many chunks as lines, four or more, the last one starting where the
\* one before it starts
C38_Witness ==
    /\ cpc = "done"
    /\ Len(chunks) >= 4
    /\ Len(chunks) = Len(ContentLines)
    /\ chunks[Len(chunks)].start_line = chunks[Len(chunks) - 1].start_line

\* C39: one analyze_code call makes at most three provider attempts, no two
\* on the same candidate; the analysis of a file begins only for a file that
\* is not in the log of the files already done, and no file is logged twice;
\* and, every awaited call returning or raising, the scan reaches its end.
C39_NothingIsRetried ==
    /\ [][/\ Len(attempts') <= 3
          /\ \A i, j \in DOMAIN attempts' :
                i # j => attempts'[i].candidate # attempts'[j].candidate
          /\ \A i, j \in DOMAIN file_log' :
                i # j => file_log'[i].path # file_log'[j].path]_vars
    /\ [][(lpc = "idle" /\ lpc' # "idle") =>
             /\ fi' = fi
             /\ \A i \in DOMAIN file_log : file_log[i].path # files[fi].path]_vars
    /\ <>(spc = "done" /\ returns = 1)

\* the analysis of the second file has returned after three attempts, the
\* work of the first file having raised
C39_Witness ==
    /\ spc = "await"
    /\ lpc = "returned"
    /\ Len(attempts) = 3
    /\ fi = 2
    /\ file_log[1].threw

\* the smaller of two numbers
Least(a, b) == IF a < b THEN a ELSE b

\* C40: the prompt of an analyze_code call renders at most three context
\* chunks, which are the first chunks of the context argument in its order,
\* each with its file_path, start_line, end_line, language and content; it
\* has a context section exactly when the context is not empty.
C40_PromptUsesFirstThreeChunks ==
    lpc # "idle" =>
        /\ Len(prompt.context_chunks) = Least(3, Len(context_arg))
        /\ \A k \in DOMAIN prompt.context_chunks :
              /\ prompt.context_chunks[k].file_path
                    = Get(context_arg[k], "file_path", "unknown")
              /\ prompt.context_chunks[k].start_line = Get(context_arg[k], "start_line", 0)
              /\ prompt.context_chunks[k].end_line = Get(context_arg[k], "end_line", 0)
              /\ prompt.context_chunks[k].language = Get(context_arg[k], "language", "")
              /\ prompt.context_chunks[k].content = Get(context_arg[k], "content", <<>>)
        /\ prompt.has_context <=> context_arg # <<>>
        /\ context_arg = <<>> => prompt.context_chunks = <<>>

\* analyze_code was called with four context chunks, the last one first
C40_Witness ==
    /\ lpc = "returned"
    /\ Len(context_arg) = 4
    /\ context_arg[1].start_line = 4
    /\ Len(prompt.context_chunks) = 3
    /\ prompt.context_chunks[1].start_line = 4

=============================================================================
